---------------------------- MODULE Spec2Model ----------------------------
(***************************************************************************)
(* A model of the image collager: the arrangement engine                   *)
(* (src/src/lib/arrangement.ts), the state codec                           *)
(* (src/src/lib/stateEncoding.ts) and the part of the App component that   *)
(* drives them (the App function in src/src/lib/imageData.ts).             *)
(*                                                                         *)
(* Conventions.                                                            *)
(*  - An image is referred to by its 1-based position in the images list   *)
(*    (the code holds object references); Null (0) stands for null,        *)
(*    undefined and array holes, which the code never tells apart (it      *)
(*    reads with "?? null" and tests with "if (x)").                       *)
(*  - Locations keep the code's 0-based row, col and index values; the     *)
(*    array accessors below add 1.                                         *)
(*  - A JavaScript array is a sequence; writing beyond its end extends it  *)
(*    with Null.                                                           *)
(*  - Reals are kept exact: lightness and chroma in hundredths, hue in     *)
(*    degrees, the generator's output as the numerator over 0x7fffffff,    *)
(*    the entropy factor in percent (the slider's unit).                   *)
(***************************************************************************)
EXTENDS Integers, Sequences, FiniteSets, TLC

(***************************************************************************)
(* State.                                                                  *)
(*   input, results, generator: a caller of arrangeImages: the arguments   *)
(*   it passes, the results of the calls it has made, in order, and the    *)
(*   state of the generator the latest call created.                       *)
(*   heap, held, before, returned: a caller of applySwap and swapInGrid:   *)
(*   the arrays in memory (an array's address is its position in heap),    *)
(*   the ArrangementState object the caller holds, the latest call (its    *)
(*   arguments and what the state passed in held when it was made) and     *)
(*   what that call returned.                                              *)
(*   encoding, encoded, decoded: a caller of encodeStateCode and              *)
(*   decodeStateCode: the arguments of encodeStateCode, the state code it  *)
(*   returned and what decodeStateCode returned for that code.             *)
(*   app: the useState values of the App component (images, gridSize,      *)
(*   params, arrangement, swaps, inclusionMask, colorOverrides,            *)
(*   hashMismatchWarning); effectPending: a dependency of its arrangement  *)
(*   effect has changed and the effect has not run yet.                    *)
(*   invoked, outcome: a call of one of the other exported functions on    *)
(*   its own (its name and arguments) and what it returned.                *)
(***************************************************************************)
VARIABLES input, results, generator, heap, held, before, returned,
          encoding, encoded, decoded, app, effectPending, invoked, outcome

arrangeVars == <<input, results, generator>>
swapVars == <<heap, held, before, returned>>
codecVars == <<encoding, encoded, decoded>>
appVars == <<app, effectPending>>
callVars == <<invoked, outcome>>
vars == <<input, results, generator, heap, held, before, returned,
          encoding, encoded, decoded, app, effectPending, invoked, outcome>>

Null == 0

Min(a, b) == IF a < b THEN a ELSE b
Max(a, b) == IF a > b THEN a ELSE b
Abs(a) == IF a < 0 THEN 0 - a ELSE a

\* the integer square root below 2^15, one bit at a time
RECURSIVE ISqrtBits(_, _, _)
ISqrtBits(n, r, bit) ==
    IF bit = 0 THEN r
    ELSE IF (r + bit) * (r + bit) <= n THEN ISqrtBits(n, r + bit, bit \div 2)
    ELSE ISqrtBits(n, r, bit \div 2)

\* Math.sqrt on the perfect squares the model's colours produce
Sqrt(n) == ISqrtBits(n, 0, 16384)

(***************************************************************************)
(* JavaScript arrays.                                                      *)
(***************************************************************************)
\* a[i] ?? null
ArrGet(a, i) == IF i >= 0 /\ i < Len(a) THEN a[i + 1] ELSE Null

\* a[i] = v, for i >= 0
ArrSet(a, i, v) ==
    [k \in 1..Max(Len(a), i + 1) |->
        IF k = i + 1 THEN v ELSE IF k <= Len(a) THEN a[k] ELSE Null]

\* a.splice(i, 1), for i >= 0
ArrSplice1(a, i) ==
    IF i >= Len(a) THEN a
    ELSE [k \in 1..(Len(a) - 1) |-> IF k <= i THEN a[k] ELSE a[k + 1]]

(***************************************************************************)
(* The seeded generator.  The closure's cell holds an integer below 2^31;  *)
(* seed * 1103515245 exceeds 2^53, so the product and the sum are rounded  *)
(* to the nearest double (ties to even) before "& 0x7fffffff" keeps the    *)
(* low 31 bits.  Wide integers are five digits in base 2^15, least         *)
(* significant first.                                                      *)
(***************************************************************************)
LimbBase == 32768
RngModulus == 2147483647
RngIncrement == 12345
\* the carry out of digit k (1-based) into digit k + 1
Carry(c, k) ==
    [c EXCEPT ![k] = c[k] % LimbBase, ![k + 1] = c[k + 1] + (c[k] \div LimbBase)]

Norm5(c) == Carry(Carry(Carry(Carry(c, 1), 2), 3), 4)

\* s * 1103515245, exactly
MulByMultiplier(s) ==
    LET a  == <<20077, 908, 1>>   \* 1103515245 = 1 * 2^30 + 908 * 2^15 + 20077
        s0 == s % LimbBase
        s1 == (s \div LimbBase) % LimbBase
        s2 == s \div (LimbBase * LimbBase)
    IN  Norm5(<< s0 * a[1],
                 s0 * a[2] + s1 * a[1],
                 s0 * a[3] + s1 * a[2] + s2 * a[1],
                 s1 * a[3] + s2 * a[2],
                 s2 * a[3] >>)

\* The spacing of the doubles around a wide integer in [2^53, 2^62), from
\* its digits above 2^45: 2^(floor(log2(top)) - 7)
Ulp(top) ==
    IF top < 512 THEN 2 ELSE IF top < 1024 THEN 4 ELSE IF top < 2048 THEN 8
    ELSE IF top < 4096 THEN 16 ELSE IF top < 8192 THEN 32
    ELSE IF top < 16384 THEN 64 ELSE IF top < 32768 THEN 128
    ELSE IF top < 65536 THEN 256 ELSE 512

\* The nearest double to a wide integer below 2^62: exact below 2^53,
\* otherwise rounded to a multiple of 2^(e-52), ties to even.
RoundDouble(d) ==
    LET top == d[5] * LimbBase + d[4]
    IN  IF top < 256 THEN d
        ELSE LET u    == Ulp(top)
                 low  == d[1] % u
                 half == u \div 2
                 odd  == (d[1] \div u) % 2 = 1
                 up   == low > half \/ (low = half /\ odd)
             IN  Norm5(<< d[1] - low + (IF up THEN u ELSE 0),
                          d[2], d[3], d[4], d[5] >>)

\* value | 0x7fffffff
AllOnes31(d) == IF (d[3] \div 2) % 2 = 0 THEN RngModulus ELSE -1

\* value & 0x7fffffff
Low31(d) == d[1] + d[2] * LimbBase + (d[3] % 2) * LimbBase * LimbBase

\* a generator created once and shared by every call: a later call goes on
\* from the state the previous one left
SharedGenerator(seed) == IF results = <<>> THEN seed ELSE generator

\* seededRandom(seed): the closure, represented by its cell
seededRandom(seed) == seed

\* p + 12345, exactly
AddIncrement(p) == Norm5([p EXCEPT ![1] = p[1] + RngIncrement])

\* one call of the closure: seed = (seed * 1103515245 + 12345) & 0x7fffffff
rngNext(s) == Low31(RoundDouble(AddIncrement(RoundDouble(MulByMultiplier(s)))))

\* Math.floor((s / 0x7fffffff) * n) for 0 <= s <= 0x7fffffff, 0 <= n < 2^15.
\* 0x7fffffff is prime, so the quotient is an integer only for s = 0 and
\* s = 0x7fffffff, where the doubles are exact; elsewhere it is at least
\* 1/0x7fffffff away from an integer, far more than the rounding error.
FloorScaled(s, n) ==
    LET hi == s \div 65536
        lo == s % 65536
        t  == hi * n + ((lo * n) \div 65536)
        l  == (lo * n) % 65536
        k0 == t \div 32768
        r0 == (t % 32768) * 65536 + l
    IN  k0 + (IF r0 >= RngModulus - k0 THEN 1 ELSE 0)

(***************************************************************************)
(* Results of calls that can throw.                                        *)
(***************************************************************************)
NoState == [grid |-> <<>>, bucket |-> <<>>, rows |-> 0, cols |-> 0]
Ok(v) == [threw |-> FALSE, value |-> v]
Thrown == [threw |-> TRUE, value |-> NoState]

\* an optional inclusion mask argument
NoMask == [given |-> FALSE, bits |-> <<>>]
Mask(bits) == [given |-> TRUE, bits |-> bits]

(***************************************************************************)
(* Colours and the colour distance (src/src/lib/colorSpace.ts).            *)
(* A colour is [l, c, h]: l and c in hundredths, h in degrees, so that     *)
(* (c1.l - c2.l) * 100 is the difference of the l fields.                  *)
(***************************************************************************)
\* the distance without the hue wraparound
colorDistanceNoWraparound(c1, c2) ==
    Sqrt((c1.l - c2.l) * (c1.l - c2.l)
         + (c1.c - c2.c) * (c1.c - c2.c)
         + (c1.h - c2.h) * (c1.h - c2.h))

colorDistanceOklch(c1, c2) ==
    LET absDiff == Abs(c1.h - c2.h)
        hueDiff == IF absDiff > 180 THEN 360 - absDiff ELSE absDiff
    IN  Sqrt((c1.l - c2.l) * (c1.l - c2.l)
             + (c1.c - c2.c) * (c1.c - c2.c)
             + hueDiff * hueDiff)

(***************************************************************************)
(* The arrangement engine (src/src/lib/arrangement.ts).                    *)
(* An image is [filename, colors]; colors is the ranked colour list.       *)
(***************************************************************************)
computeColorScore(image, axis) ==
    IF Len(image.colors) = 0
    THEN (IF axis = "lightness" THEN 50 ELSE 0)
    ELSE LET color == image.colors[1]
         IN  CASE axis = "hue"       -> color.h
               [] axis = "lightness" -> color.l
               [] axis = "chroma"    -> color.c
               [] OTHER              -> color.h

\* the comparator of a descending sort
CompareScoreDescending(a, b) == b.score - a.score

\* comparator of scored.sort: a.score - b.score
CompareScore(a, b) == a.score - b.score

\* Array.prototype.sort is stable: an element is placed after every element
\* that does not compare greater than it.
RECURSIVE InsertSorted(_, _)
InsertSorted(sorted, x) ==
    IF sorted = <<>> THEN <<x>>
    ELSE IF CompareScore(sorted[Len(sorted)], x) > 0
         THEN Append(InsertSorted(SubSeq(sorted, 1, Len(sorted) - 1), x),
                     sorted[Len(sorted)])
         ELSE Append(sorted, x)

RECURSIVE SortScored(_)
SortScored(scored) ==
    IF scored = <<>> THEN <<>>
    ELSE InsertSorted(SortScored(SubSeq(scored, 1, Len(scored) - 1)),
                      scored[Len(scored)])

\* Math.floor(sorted.length * entropy * 0.3), entropy = pct / 100
EntropySwapCount(n, pct) == (n * pct * 3) \div 1000

\* Math.floor(5 + entropy * 15)
EntropyWindow(pct) == 5 + ((pct * 15) \div 100)

\* [result[idx], result[swapIdx]] = [result[swapIdx], result[idx]]
EntropyExchange(result, idx, swapIdx, rng) ==
    [result |-> ArrSet(ArrSet(result, idx, ArrGet(result, swapIdx)),
                       swapIdx, ArrGet(result, idx)),
     rng    |-> rng]

\* the second draw of a pass, were swapIdx idx + offset as it is
EntropyOffsetUnclamped(result, pct, idx, r2) ==
    EntropyExchange(result, idx,
        idx + FloorScaled(r2, EntropyWindow(pct) * 2) - EntropyWindow(pct), r2)

\* the second draw r2 of a pass: offset and swapIdx
EntropyOffset(result, pct, idx, r2) ==
    EntropyExchange(result, idx,
        Max(0, Min(Len(result) - 1,
                   idx + FloorScaled(r2, EntropyWindow(pct) * 2) - EntropyWindow(pct))),
        r2)

\* the first draw r1 of a pass: idx
EntropyIndex(result, pct, r1) ==
    EntropyOffset(result, pct, FloorScaled(r1, Len(result)), rngNext(r1))

\* One pass of the loop body of applyEntropy; st = [result, rng]
EntropyStep(st, pct) == EntropyIndex(st.result, pct, rngNext(st.rng))

RECURSIVE EntropyLoop(_, _, _)
EntropyLoop(st, pct, left) ==
    IF left = 0 THEN st ELSE EntropyLoop(EntropyStep(st, pct), pct, left - 1)

\* applyEntropy(sorted, entropy, rng): [result, rng]
applyEntropy(sorted, pct, rng) ==
    IF pct = 0 THEN [result |-> sorted, rng |-> rng]
    ELSE EntropyLoop([result |-> sorted, rng |-> rng], pct,
                     EntropySwapCount(Len(sorted), pct))

\* minDist over every pair of colours; Infinity (no pair) gives 0
minColorDistance(a, b) ==
    LET dists == { colorDistanceOklch(a.colors[i], b.colors[j]) :
                     i \in 1..Len(a.colors), j \in 1..Len(b.colors) }
    IN  IF dists = {} THEN 0
        ELSE CHOOSE minDist \in dists : \A other \in dists : minDist <= other

\* What the annealer reads of the images, computed once: env.dist[i][j] is
\* minColorDistance(images[i], images[j]) and env.colored[i] is
\* images[i].colors.length > 0
ImageEnv(images) ==
    [dist    |-> [i \in 1..Len(images) |-> [j \in 1..Len(images) |->
                    minColorDistance(images[i], images[j])]],
     colored |-> [i \in 1..Len(images) |-> Len(images[i].colors) > 0]]

\* totalDist over a set of neighbour positions
RECURSIVE SumDistances(_, _, _, _)
SumDistances(env, grid, cell, nbrs) ==
    IF nbrs = {} THEN 0
    ELSE LET q == CHOOSE x \in nbrs : TRUE
         IN  env.dist[cell][grid[q[1] + 1][q[2] + 1]]
             + SumDistances(env, grid, cell, nbrs \ {q})

\* neighborEnergy: the mean totalDist / count as the fraction [num, den]
neighborEnergy(env, grid, row, col, radius, square) ==
    LET cell == grid[row + 1][col + 1]
    IN  IF cell = Null \/ ~env.colored[cell] THEN [num |-> 0, den |-> 1]
        ELSE LET nbrs == { p \in ((row - radius)..(row + radius))
                                  \X ((col - radius)..(col + radius)) :
                             /\ ~(p[1] = row /\ p[2] = col)
                             /\ (square \/ p[1] = row \/ p[2] = col)
                             /\ p[1] >= 0 /\ p[1] < Len(grid)
                             /\ p[2] >= 0 /\ p[2] < Len(grid[1])
                             /\ grid[p[1] + 1][p[2] + 1] # Null
                             /\ env.colored[grid[p[1] + 1][p[2] + 1]] }
             IN  IF nbrs = {} THEN [num |-> 0, den |-> 1]
                 ELSE [num |-> SumDistances(env, grid, cell, nbrs),
                       den |-> Cardinality(nbrs)]

\* e1 + e2 >= f1 + f2 on fractions
EnergyNotLess(e1, e2, f1, f2) ==
    (e1.num * e2.den + e2.num * e1.den) * (f1.den * f2.den)
      >= (f1.num * f2.den + f2.num * f1.den) * (e1.den * e2.den)

\* e1 + e2 > f1 + f2 on fractions
EnergyGreater(e1, e2, f1, f2) ==
    (e1.num * e2.den + e2.num * e1.den) * (f1.den * f2.den)
      > (f1.num * f2.den + f2.num * f1.den) * (e1.den * e2.den)

\* rng() > temperature * 0.5, temperature = 1 - i / iterations, for the
\* generator cell s: s / 0x7fffffff > (iterations - i) / (2 * iterations)
RejectDraw(s, i, iterations) == FloorScaled(s, 2 * iterations) >= iterations - i

SwapCells(grid, r1, c1, r2, c2) ==
    [r \in 1..Len(grid) |-> [c \in 1..Len(grid[r]) |->
        IF r = r1 + 1 /\ c = c1 + 1 THEN grid[r2 + 1][c2 + 1]
        ELSE IF r = r2 + 1 /\ c = c2 + 1 THEN grid[r1 + 1][c1 + 1]
        ELSE grid[r][c]]]

\* The end of an iteration: the exchange is kept unless the energy rose and
\* the third draw s3 exceeds half the temperature.
AnnealReject(st, swapped, s3, i, iterations) ==
    IF RejectDraw(s3, i, iterations)
    THEN [st EXCEPT !.rng = s3]
    ELSE [st EXCEPT !.rng = s3, !.grid = swapped]

\* currentEnergy against newEnergy for the exchange of p1 and p2
AnnealCompare(env, st, swapped, p1, p2, s2, i, radius, square, iterations) ==
    IF EnergyGreater(neighborEnergy(env, swapped, p1[1], p1[2], radius, square),
                     neighborEnergy(env, swapped, p2[1], p2[2], radius, square),
                     neighborEnergy(env, st.grid, p1[1], p1[2], radius, square),
                     neighborEnergy(env, st.grid, p2[1], p2[2], radius, square))
    THEN AnnealReject(st, swapped, rngNext(s2), i, iterations)
    ELSE [st EXCEPT !.rng = s2, !.grid = swapped]

\* The two positions drawn.  positions[idx] is undefined for
\* idx = positions.length (the generator returned 1) and destructuring it
\* throws.
AnnealPositions(env, st, idx1, idx2, s2, i, positions, radius, square, iterations) ==
    IF idx1 = idx2 THEN [st EXCEPT !.rng = s2]
    ELSE IF idx1 >= Len(positions) \/ idx2 >= Len(positions)
    THEN [st EXCEPT !.rng = s2, !.threw = TRUE]
    ELSE AnnealCompare(env, st,
             SwapCells(st.grid, positions[idx1 + 1][1], positions[idx1 + 1][2],
                                positions[idx2 + 1][1], positions[idx2 + 1][2]),
             positions[idx1 + 1], positions[idx2 + 1], s2, i,
             radius, square, iterations)

\* the first two draws s1, s2 of an iteration
AnnealDraws(env, st, s1, s2, i, positions, radius, square, iterations) ==
    AnnealPositions(env, st, FloorScaled(s1, Len(positions)),
                    FloorScaled(s2, Len(positions)), s2, i,
                    positions, radius, square, iterations)

AnnealSecond(env, st, s1, i, positions, radius, square, iterations) ==
    AnnealDraws(env, st, s1, rngNext(s1), i, positions, radius, square, iterations)

\* One iteration of the annealing loop; st = [grid, rng, threw].
AnnealStep(env, st, i, positions, radius, square, iterations) ==
    IF st.threw THEN st
    ELSE AnnealSecond(env, st, rngNext(st.rng), i, positions, radius, square,
                      iterations)

\* Iterations lo .. hi-1 of the loop, split in halves.  A value bound
\* through a set is evaluated in full before it is used, so the state after
\* one iteration is computed before the next one starts.
RECURSIVE AnnealRange(_, _, _, _, _, _, _, _)
AnnealRange(env, st, lo, hi, positions, radius, square, iterations) ==
    IF hi <= lo THEN st
    ELSE IF hi = lo + 1
    THEN CHOOSE out \in
           { next \in { AnnealStep(env, st, lo, positions, radius, square,
                                   iterations) } : next = next } : TRUE
    ELSE CHOOSE out \in
           { AnnealRange(env, half, (lo + hi) \div 2, hi,
                         positions, radius, square, iterations) :
               half \in { AnnealRange(env, st, lo, (lo + hi) \div 2,
                                      positions, radius, square, iterations) } } : TRUE

\* the occupied cells, row by row
RECURSIVE OccupiedFrom(_, _)
OccupiedFrom(grid, k) ==
    LET cols == Len(grid[1])
        r    == k \div cols
        c    == k % cols
    IN  IF k >= Len(grid) * cols THEN <<>>
        ELSE (IF grid[r + 1][c + 1] # Null THEN <<<<r, c>>>> ELSE <<>>)
             \o OccupiedFrom(grid, k + 1)

\* optimizeLocalSmoothness(grid, radius, square, rng, iterations):
\* [grid, rng, threw]
optimizeLocalSmoothness(images, grid, radius, square, rng, iterations) ==
    IF radius = 0 THEN [grid |-> grid, rng |-> rng, threw |-> FALSE]
    ELSE CHOOSE out \in
           { IF Len(in.positions) < 2 THEN in.st
             ELSE AnnealRange(in.env, in.st, 0, iterations, in.positions,
                              radius, square, iterations) :
               in \in { x \in { [env       |-> ImageEnv(images),
                                 positions |-> OccupiedFrom(grid, 0),
                                 st        |-> [grid |-> grid, rng |-> rng,
                                                threw |-> FALSE]] } : x = x } } : TRUE

AnnealIterations == 2000

\* the scored list, sorted: entries [image, index, score], image and index
\* both given by the 1-based position in images
ScoredSorted(images, params) ==
    SortScored([i \in 1..Len(images) |->
        [image |-> i, index |-> i, score |-> computeColorScore(images[i], params.sortAxis)]])

\* filter of a sequence, keeping order
RECURSIVE SelectImages(_, _)
SelectImages(scored, keep) ==
    IF scored = <<>> THEN <<>>
    ELSE (IF scored[1].index \in keep THEN <<scored[1].image>> ELSE <<>>)
         \o SelectImages(Tail(scored), keep)

\* the mask read at the position in the sorted list, not at s.index
PartitionBySortedPosition(images, rows, cols, params, mask) ==
    LET scored == [k \in 1..Len(images) |->
                     [ScoredSorted(images, params)[k] EXCEPT !.index = k]]
        all    == 1..Len(images)
    IN  IF mask.given /\ Len(mask.bits) = Len(images)
        THEN LET inc == { i \in all : mask.bits[i] }
             IN  [gridImages   |-> SelectImages(scored, inc),
                  bucketImages |-> SelectImages(scored, all \ inc)]
        ELSE [gridImages   |-> SubSeq([k \in all |-> scored[k].image], 1,
                                      Min(rows * cols, Len(images))),
              bucketImages |-> SubSeq([k \in all |-> scored[k].image],
                                      rows * cols + 1, Len(images))]

\* the partition of arrangeImages: [gridImages, bucketImages].
\* mask is Mask(bits), or NoMask when the argument is omitted.
Partition(images, rows, cols, params, mask) ==
    LET scored == ScoredSorted(images, params)
        all    == 1..Len(images)
    IN  IF mask.given /\ Len(mask.bits) = Len(images)
        THEN LET inc == { i \in all : mask.bits[i] }
             IN  [gridImages   |-> SelectImages(scored, inc),
                  bucketImages |-> SelectImages(scored, all \ inc)]
        ELSE LET totalCells == rows * cols
                 sorted     == [k \in 1..Len(scored) |-> scored[k].image]
             IN  [gridImages   |-> SubSeq(sorted, 1, Min(totalCells, Len(sorted))),
                  bucketImages |-> SubSeq(sorted, totalCells + 1, Len(sorted))]

\* a placement that fills column by column
PlaceByColumns(shuffled, rows, cols) ==
    [r \in 1..rows |-> [c \in 1..cols |-> ArrGet(shuffled, (c - 1) * rows + (r - 1))]]

\* the placement loop: cell (r, c) takes shuffled[r * cols + c]
PlaceImages(shuffled, rows, cols) ==
    [r \in 1..rows |-> [c \in 1..cols |-> ArrGet(shuffled, (r - 1) * cols + (c - 1))]]

\* the end of arrangeImages: opt = [grid, rng, threw] after the annealer
ArrangeReturn(opt, bucketImages, rows, cols) ==
    [result |-> IF opt.threw THEN Thrown
                ELSE Ok([grid |-> opt.grid, bucket |-> bucketImages,
                         rows |-> rows, cols |-> cols]),
     rng    |-> opt.rng]

\* from the placement loop on: shuffled = [result, rng] after applyEntropy
ArrangePlace(images, rows, cols, params, shuffled, bucketImages) ==
    ArrangeReturn(
        IF params.neighborRadius > 0
        THEN optimizeLocalSmoothness(images,
                 PlaceImages(shuffled.result, rows, cols), params.neighborRadius,
                 params.squareSmoothing, shuffled.rng, AnnealIterations)
        ELSE [grid  |-> PlaceImages(shuffled.result, rows, cols),
              rng   |-> shuffled.rng, threw |-> FALSE],
        bucketImages, rows, cols)

\* from applyEntropy on: part = [gridImages, bucketImages]
ArrangeShuffle(images, rows, cols, params, part, rng) ==
    ArrangePlace(images, rows, cols, params,
                 applyEntropy(part.gridImages, params.entropyFactor, rng),
                 part.bucketImages)

\* The body of arrangeImages with the generator it created:
\* [result, rng], rng the generator's state when the call returns
ArrangeCall(images, rows, cols, params, mask) ==
    ArrangeShuffle(images, rows, cols, params,
                   Partition(images, rows, cols, params, mask),
                   seededRandom(params.seed))

\* arrangeImages(images, rows, cols, params, inclusionMask)
arrangeImages(images, rows, cols, params, mask) ==
    ArrangeCall(images, rows, cols, params, mask).result

(***************************************************************************)
(* applySwap and swapInGrid.  An ArrangementState object is                *)
(* [grid, bucket, rows, cols] with grid the address of the array of row    *)
(* addresses and bucket the address of the bucket array; the same record   *)
(* with the arrays in place of the addresses is the state's value.         *)
(* A location is [type, row, col, index]; the fields its type does not     *)
(* have are 0.                                                             *)
(***************************************************************************)
GridLocation(row, col) == [type |-> "grid", row |-> row, col |-> col, index |-> 0]
BucketLocation(index) == [type |-> "bucket", row |-> 0, col |-> 0, index |-> index]

\* a state's value stored in fresh arrays: [heap, state]
Intern(value) ==
    [heap  |-> value.grid
                 \o << [r \in 1..Len(value.grid) |-> r], value.bucket >>,
     state |-> [grid |-> Len(value.grid) + 1, bucket |-> Len(value.grid) + 2,
                rows |-> value.rows, cols |-> value.cols]]

\* the value of a state object
Deref(h, state) ==
    [grid   |-> [r \in 1..Len(h[state.grid]) |-> h[h[state.grid][r]]],
     bucket |-> h[state.bucket],
     rows   |-> state.rows, cols |-> state.cols]

\* [...arrangement.grid]: a new outer array over the same row arrays
ShallowCopyGrid(h, grid) == [heap |-> Append(h, h[grid]), grid |-> Len(h) + 1]

\* arrangement.grid.map(row => [...row]): [heap, grid]
CopyGrid(h, grid) ==
    [heap |-> h \o [r \in 1..Len(h[grid]) |-> h[h[grid][r]]]
                \o << [r \in 1..Len(h[grid]) |-> Len(h) + r] >>,
     grid |-> Len(h) + Len(h[grid]) + 1]

\* [...arrangement.bucket]: [heap, bucket]
CopyBucket(h, bucket) == [heap |-> Append(h, h[bucket]), bucket |-> Len(h) + 1]

\* newGrid[row]?.[col] ?? null
ReadCell(h, grid, row, col) ==
    IF row >= 0 /\ row < Len(h[grid]) THEN ArrGet(h[h[grid][row + 1]], col) ELSE Null

\* the image at a location of the copies
ReadLocation(h, grid, bucket, loc) ==
    IF loc.type = "grid" THEN ReadCell(h, grid, loc.row, loc.col)
    ELSE ArrGet(h[bucket], loc.index)

\* newGrid[row][col] = image: [threw, heap]; newGrid[row] is undefined for a
\* row outside the grid, and the assignment throws a TypeError
WriteCell(h, grid, row, col, image) ==
    IF row >= 0 /\ row < Len(h[grid])
    THEN [threw |-> FALSE,
          heap  |-> [h EXCEPT ![h[grid][row + 1]] = ArrSet(@, col, image)]]
    ELSE [threw |-> TRUE, heap |-> h]

\* the first half of "Apply the swap": what the source location receives
WriteFrom(h, grid, bucket, from, toImage) ==
    IF from.type = "grid" THEN WriteCell(h, grid, from.row, from.col, toImage)
    ELSE IF toImage # Null
    THEN [threw |-> FALSE,
          heap  |-> [h EXCEPT ![bucket] = ArrSet(@, from.index, toImage)]]
    ELSE [threw |-> FALSE,
          heap  |-> [h EXCEPT ![bucket] = ArrSplice1(@, from.index)]]

\* the second half: what the target location receives
WriteTo(h, grid, bucket, to, fromImage) ==
    IF to.type = "grid" THEN WriteCell(h, grid, to.row, to.col, fromImage)
    ELSE IF fromImage # Null
    THEN [threw |-> FALSE,
          heap  |-> IF to.index < Len(h[bucket])
                    THEN [h EXCEPT ![bucket] = ArrSet(@, to.index, fromImage)]
                    ELSE [h EXCEPT ![bucket] = Append(@, fromImage)]]
    ELSE [threw |-> FALSE, heap |-> h]

\* both halves, the second only if the first did not throw
WriteBoth(h, grid, bucket, from, to, fromImage, toImage) ==
    IF WriteFrom(h, grid, bucket, from, toImage).threw
    THEN WriteFrom(h, grid, bucket, from, toImage)
    ELSE WriteTo(WriteFrom(h, grid, bucket, from, toImage).heap,
                 grid, bucket, to, fromImage)

\* what a call returns: [threw, heap, state]
Returned(written, grid, bucket, arrangement) ==
    [threw |-> written.threw, heap |-> written.heap,
     state |-> [grid |-> grid, bucket |-> bucket,
                rows |-> arrangement.rows, cols |-> arrangement.cols]]

\* applySwap from "Get images at both locations" on, on the copies
SwapOnCopies(h, grid, bucket, arrangement, from, to) ==
    Returned(WriteBoth(h, grid, bucket, from, to,
                       ReadLocation(h, grid, bucket, from),
                       ReadLocation(h, grid, bucket, to)),
             grid, bucket, arrangement)

\* applySwap with newGrid = copied.grid, on the heap copied.heap
SwapWithGrid(copied, arrangement, from, to) ==
    SwapOnCopies(CopyBucket(copied.heap, arrangement.bucket).heap, copied.grid,
                 CopyBucket(copied.heap, arrangement.bucket).bucket,
                 arrangement, from, to)

\* applySwap(arrangement, from, to) on the heap h: [threw, heap, state]
applySwap(h, arrangement, from, to) ==
    SwapWithGrid(CopyGrid(h, arrangement.grid), arrangement, from, to)

\* const temp = newGrid[pos1.row][pos1.col] and the two assignments; reading
\* or writing a cell of a row outside the grid throws
ExchangeCells(h, grid, pos1, pos2) ==
    IF pos1.row >= 0 /\ pos1.row < Len(h[grid])
       /\ pos2.row >= 0 /\ pos2.row < Len(h[grid])
    THEN WriteCell(
             WriteCell(h, grid, pos1.row, pos1.col,
                       ReadCell(h, grid, pos2.row, pos2.col)).heap,
             grid, pos2.row, pos2.col, ReadCell(h, grid, pos1.row, pos1.col))
    ELSE [threw |-> TRUE, heap |-> h]

\* swapInGrid with newGrid = copied.grid; the bucket is the one passed in
SwapInGridWith(copied, arrangement, pos1, pos2) ==
    Returned(ExchangeCells(copied.heap, copied.grid, pos1, pos2),
             copied.grid, arrangement.bucket, arrangement)

\* swapInGrid(arrangement, pos1, pos2) on the heap h: [threw, heap, state]
swapInGrid(h, arrangement, pos1, pos2) ==
    SwapInGridWith(CopyGrid(h, arrangement.grid), arrangement, pos1, pos2)

\* applySwap on a state's value: the value of the state returned, or Thrown
ApplySwapValue(called) ==
    IF called.threw THEN Thrown ELSE Ok(Deref(called.heap, called.state))

applySwapOf(value, from, to) ==
    ApplySwapValue(applySwap(Intern(value).heap, Intern(value).state, from, to))

(***************************************************************************)
(* The state codec (src/src/lib/stateEncoding.ts).  A string is a sequence *)
(* of one-character strings; a Uint8Array is a sequence of numbers in      *)
(* 0 .. 255.                                                               *)
(***************************************************************************)
\* the printable ASCII characters, from code 32 on; the double quote (34), the
\* backslash (92) and the backquote (96) are left out, their places kept
AsciiChars ==
    << " ", "!", "", "#", "$", "%", "&", "'", "(", ")", "*", "+", ",", "-", ".", "/",
       "0", "1", "2", "3", "4", "5", "6", "7", "8", "9", ":", ";", "<", "=", ">", "?",
       "@", "A", "B", "C", "D", "E", "F", "G", "H", "I", "J", "K", "L", "M", "N", "O",
       "P", "Q", "R", "S", "T", "U", "V", "W", "X", "Y", "Z", "[", "", "]", "^", "_",
       "", "a", "b", "c", "d", "e", "f", "g", "h", "i", "j", "k", "l", "m", "n", "o",
       "p", "q", "r", "s", "t", "u", "v", "w", "x", "y", "z", "{", "|", "}", "~" >>

\* String.prototype.charCodeAt on a character
CharCode(ch) == 31 + (CHOOSE k \in 1..Len(AsciiChars) : AsciiChars[k] = ch)

\* the order of the default Array.prototype.sort: by code units, a proper
\* prefix first
RECURSIVE StringLess(_, _)
StringLess(x, y) ==
    IF y = <<>> THEN FALSE
    ELSE IF x = <<>> THEN TRUE
    ELSE IF x[1] = y[1] THEN StringLess(Tail(x), Tail(y))
    ELSE CharCode(x[1]) < CharCode(y[1])

RECURSIVE InsertString(_, _)
InsertString(sorted, x) ==
    IF sorted = <<>> THEN <<x>>
    ELSE IF StringLess(x, sorted[Len(sorted)])
         THEN Append(InsertString(SubSeq(sorted, 1, Len(sorted) - 1), x),
                     sorted[Len(sorted)])
         ELSE Append(sorted, x)

\* [...filenames].sort()
RECURSIVE SortStrings(_)
SortStrings(strings) ==
    IF strings = <<>> THEN <<>>
    ELSE InsertString(SortStrings(SubSeq(strings, 1, Len(strings) - 1)),
                      strings[Len(strings)])

\* Array.prototype.join
RECURSIVE Join(_, _)
Join(strings, sep) ==
    IF strings = <<>> THEN <<>>
    ELSE IF Len(strings) = 1 THEN strings[1]
    ELSE strings[1] \o <<sep>> \o Join(Tail(strings), sep)

\* String.prototype.split on a one-character separator
RECURSIVE Split(_, _)
Split(str, sep) ==
    IF \A k \in 1..Len(str) : str[k] # sep THEN <<str>>
    ELSE LET at == CHOOSE k \in 1..Len(str) :
                       str[k] = sep /\ \A j \in 1..(k - 1) : str[j] # sep
         IN  <<SubSeq(str, 1, at - 1)>> \o Split(SubSeq(str, at + 1, Len(str)), sep)

Base36Digits ==
    << "0", "1", "2", "3", "4", "5", "6", "7", "8", "9", "a", "b", "c", "d", "e", "f",
       "g", "h", "i", "j", "k", "l", "m", "n", "o", "p", "q", "r", "s", "t", "u", "v",
       "w", "x", "y", "z" >>

MAX_SEED == 1679615

\* Number.prototype.toString(36) of an integer n >= 0
RECURSIVE ToBase36(_)
ToBase36(n) ==
    IF n < 36 THEN <<Base36Digits[n + 1]>>
    ELSE Append(ToBase36(n \div 36), Base36Digits[(n % 36) + 1])

\* String.prototype.padStart(width, "0")
RECURSIVE PadStart(_, _)
PadStart(str, width) ==
    IF Len(str) >= width THEN str ELSE PadStart(<<"0">> \o str, width)

seedToString(seed) == PadStart(ToBase36(seed), 4)

\* the value of a base-36 digit, letters of either case; -1 for another
\* character
DigitValue(ch) ==
    IF \E k \in 1..36 : Base36Digits[k] = ch
    THEN (CHOOSE k \in 1..36 : Base36Digits[k] = ch) - 1
    ELSE IF CharCode(ch) >= 65 /\ CharCode(ch) <= 90 THEN CharCode(ch) - 55
    ELSE -1

\* The digits parseInt reads: the longest prefix of digits.  Every value
\* above MAX_SEED is kept as MAX_SEED + 1; the callers only compare it with
\* MAX_SEED.
RECURSIVE ParseDigits(_, _)
ParseDigits(str, acc) ==
    IF str = <<>> \/ DigitValue(str[1]) < 0 THEN acc
    ELSE ParseDigits(Tail(str), Min(acc * 36 + DigitValue(str[1]), MAX_SEED + 1))

NaN == [nan |-> TRUE, value |-> 0]
Number(n) == [nan |-> FALSE, value |-> n]

\* parseInt(str, 36) on a string without white space: an optional sign, then
\* digits; NaN without a digit
ParseInt36(str) ==
    IF str = <<>> \/ DigitValue(str[1]) < 0 THEN NaN
    ELSE Number(ParseDigits(str, 0))

stringToSeed(str) ==
    IF str # <<>> /\ str[1] \in {"-", "+"}
    THEN (IF ParseInt36(Tail(str)).nan THEN NaN
          ELSE IF str[1] = "-" THEN Number(0 - ParseInt36(Tail(str)).value)
          ELSE ParseInt36(Tail(str)))
    ELSE ParseInt36(str)

\* the bitwise operators on integers a, b >= 0
RECURSIVE BitAnd(_, _)
BitAnd(a, b) ==
    IF a = 0 \/ b = 0 THEN 0
    ELSE 2 * BitAnd(a \div 2, b \div 2) + (IF a % 2 = 1 /\ b % 2 = 1 THEN 1 ELSE 0)

RECURSIVE BitOr(_, _)
BitOr(a, b) ==
    IF a = 0 THEN b
    ELSE IF b = 0 THEN a
    ELSE 2 * BitOr(a \div 2, b \div 2) + (IF a % 2 = 1 \/ b % 2 = 1 THEN 1 ELSE 0)

RECURSIVE BitXor(_, _)
BitXor(a, b) ==
    IF a = 0 THEN b
    ELSE IF b = 0 THEN a
    ELSE 2 * BitXor(a \div 2, b \div 2) + (IF a % 2 # b % 2 THEN 1 ELSE 0)

\* The unsigned 32-bit hash is kept as <<high, low>> halves of 16 bits.
HashHalf == 65536

\* hash = (((hash << 5) + hash) ^ code) >>> 0
HashStep(hash, code) ==
    << (hash[1] * 33 + ((hash[2] * 33) \div HashHalf)) % HashHalf,
       BitXor((hash[2] * 33) % HashHalf, code) >>

\* The loop over combined[lo .. hi-1], split in halves; the hash after one
\* half is computed in full before the other half starts.
RECURSIVE HashLoop(_, _, _, _)
HashLoop(hash, combined, lo, hi) ==
    IF hi <= lo THEN hash
    ELSE IF hi = lo + 1 THEN HashStep(hash, CharCode(combined[lo + 1]))
    ELSE CHOOSE out \in
           { HashLoop(half, combined, (lo + hi) \div 2, hi) :
               half \in { HashLoop(hash, combined, lo, (lo + hi) \div 2) } } : TRUE

\* hash.toString(36)
RECURSIVE HashToBase36(_)
HashToBase36(hash) ==
    IF hash[1] = 0 THEN ToBase36(hash[2])
    ELSE Append(HashToBase36(<< hash[1] \div 36,
                                ((hash[1] % 36) * HashHalf + hash[2]) \div 36 >>),
                Base36Digits[(((hash[1] % 36) * HashHalf + hash[2]) % 36) + 1])

hashImageSet(filenames) ==
    HashToBase36(HashLoop(<<0, 5381>>, Join(SortStrings(filenames), "|"), 0,
                          Len(Join(SortStrings(filenames), "|"))))

\* bytes[Math.floor(i / 8)] |= (1 << (7 - (i % 8))) for every set bit
RECURSIVE PackLoop(_, _, _)
PackLoop(bits, bytes, i) ==
    IF i >= Len(bits) THEN bytes
    ELSE IF bits[i + 1]
    THEN PackLoop(bits,
                  ArrSet(bytes, i \div 8,
                         BitOr(bytes[(i \div 8) + 1], 2 ^ (7 - (i % 8))) % 256),
                  i + 1)
    ELSE PackLoop(bits, bytes, i + 1)

packBits(bits) == PackLoop(bits, [k \in 1..((Len(bits) + 7) \div 8) |-> 0], 0)

\* unpackBits reading the lowest bit first
UnpackBitsLowFirst(bytes, count) ==
    [k \in 1..count |->
        ((k - 1) \div 8) < Len(bytes)
        /\ BitAnd(bytes[((k - 1) \div 8) + 1], 2 ^ ((k - 1) % 8)) # 0]

\* unpackBits returning the bits the bytes hold, whatever the count
UnpackBitsOfBytes(bytes, count) ==
    [k \in 1..(8 * Len(bytes)) |->
        BitAnd(bytes[((k - 1) \div 8) + 1], 2 ^ (7 - ((k - 1) % 8))) # 0]

unpackBits(bytes, count) ==
    [k \in 1..count |->
        ((k - 1) \div 8) < Len(bytes)
        /\ BitAnd(bytes[((k - 1) \div 8) + 1], 2 ^ (7 - ((k - 1) % 8))) # 0]

\* encodeLocation keeping 6 bits of the row
EncodeLocationSixBitRow(loc) ==
    IF loc.type = "bucket"
    THEN <<0, BitAnd(loc.index, 32767)>>
    ELSE <<1, BitOr(BitAnd(loc.row, 63) * 256, BitAnd(loc.col, 255))>>

encodeLocation(loc) ==
    IF loc.type = "bucket"
    THEN <<0, BitAnd(loc.index, 32767)>>
    ELSE <<1, BitOr(BitAnd(loc.row, 127) * 256, BitAnd(loc.col, 255))>>

decodeLocation(type, packed) ==
    IF type = 0
    THEN BucketLocation(packed)
    ELSE GridLocation(BitAnd(packed \div 256, 127), BitAnd(packed, 255))

SwapRecord(from, to) == [from |-> from, to |-> to]

\* the six bytes of one swap with the low byte of a value before the high
SwapBytesLowFirst(first, second) ==
    << first[1] % 256, BitAnd(first[2], 255), BitAnd(first[2] \div 256, 255),
       second[1] % 256, BitAnd(second[2], 255), BitAnd(second[2] \div 256, 255) >>

\* the six bytes of one swap; a Uint8Array element keeps the low 8 bits
SwapBytes(first, second) ==
    << first[1] % 256, BitAnd(first[2] \div 256, 255), BitAnd(first[2], 255),
       second[1] % 256, BitAnd(second[2] \div 256, 255), BitAnd(second[2], 255) >>

RECURSIVE encodeSwaps(_)
encodeSwaps(swaps) ==
    IF swaps = <<>> THEN <<>>
    ELSE SwapBytes(encodeLocation(swaps[1].from), encodeLocation(swaps[1].to))
         \o encodeSwaps(Tail(swaps))

RECURSIVE DecodeSwapsFrom(_, _)
DecodeSwapsFrom(bytes, i) ==
    IF i + 5 < Len(bytes)
    THEN << SwapRecord(
              decodeLocation(bytes[i + 1], BitOr(bytes[i + 2] * 256, bytes[i + 3])),
              decodeLocation(bytes[i + 4], BitOr(bytes[i + 5] * 256, bytes[i + 6]))) >>
         \o DecodeSwapsFrom(bytes, i + 6)
    ELSE <<>>

decodeSwaps(bytes) == IF Len(bytes) = 0 THEN <<>> ELSE DecodeSwapsFrom(bytes, 0)

RGBColor(r, g, b) == [r |-> r, g |-> g, b |-> b]

ColorOverrideEntry(imageIndex, colorIndex, rgb) ==
    [imageIndex |-> imageIndex, colorIndex |-> colorIndex, rgb |-> rgb]

RECURSIVE encodeColorOverrides(_)
encodeColorOverrides(overrides) ==
    IF overrides = <<>> THEN <<>>
    ELSE << BitAnd(overrides[1].imageIndex \div 256, 255),
            BitAnd(overrides[1].imageIndex, 255),
            BitAnd(overrides[1].colorIndex, 255),
            BitAnd(overrides[1].rgb.r, 255),
            BitAnd(overrides[1].rgb.g, 255),
            BitAnd(overrides[1].rgb.b, 255) >>
         \o encodeColorOverrides(Tail(overrides))

RECURSIVE DecodeOverridesFrom(_, _)
DecodeOverridesFrom(bytes, i) ==
    IF i + 5 < Len(bytes)
    THEN << ColorOverrideEntry(BitOr(bytes[i + 1] * 256, bytes[i + 2]), bytes[i + 3],
                               RGBColor(bytes[i + 4], bytes[i + 5], bytes[i + 6])) >>
         \o DecodeOverridesFrom(bytes, i + 6)
    ELSE <<>>

decodeColorOverrides(bytes) ==
    IF Len(bytes) = 0 THEN <<>> ELSE DecodeOverridesFrom(bytes, 0)

Base64Chars ==
    << "A", "B", "C", "D", "E", "F", "G", "H", "I", "J", "K", "L", "M", "N", "O", "P",
       "Q", "R", "S", "T", "U", "V", "W", "X", "Y", "Z", "a", "b", "c", "d", "e", "f",
       "g", "h", "i", "j", "k", "l", "m", "n", "o", "p", "q", "r", "s", "t", "u", "v",
       "w", "x", "y", "z", "0", "1", "2", "3", "4", "5", "6", "7", "8", "9", "+", "/" >>

Base64Value(ch) == (CHOOSE k \in 1..64 : Base64Chars[k] = ch) - 1

\* btoa on the binary string of the bytes
RECURSIVE Btoa(_)
Btoa(bytes) ==
    IF bytes = <<>> THEN <<>>
    ELSE IF Len(bytes) = 1
    THEN << Base64Chars[(bytes[1] \div 4) + 1],
            Base64Chars[(bytes[1] % 4) * 16 + 1], "=", "=" >>
    ELSE IF Len(bytes) = 2
    THEN << Base64Chars[(bytes[1] \div 4) + 1],
            Base64Chars[(bytes[1] % 4) * 16 + (bytes[2] \div 16) + 1],
            Base64Chars[(bytes[2] % 16) * 4 + 1], "=" >>
    ELSE << Base64Chars[(bytes[1] \div 4) + 1],
            Base64Chars[(bytes[1] % 4) * 16 + (bytes[2] \div 16) + 1],
            Base64Chars[(bytes[2] % 16) * 4 + (bytes[3] \div 64) + 1],
            Base64Chars[(bytes[3] % 64) + 1] >>
         \o Btoa(SubSeq(bytes, 4, Len(bytes)))

\* String.prototype.replace with a global one-character pattern
ReplaceAll(str, old, new) ==
    [k \in 1..Len(str) |-> IF str[k] = old THEN new ELSE str[k]]

\* .replace(/=+$/, '')
RECURSIVE StripPadding(_)
StripPadding(str) ==
    IF str # <<>> /\ str[Len(str)] = "="
    THEN StripPadding(SubSeq(str, 1, Len(str) - 1))
    ELSE str

toBase64(bytes) ==
    StripPadding(ReplaceAll(ReplaceAll(Btoa(bytes), "+", "-"), "/", "_"))

\* atob: a string whose length is a multiple of 4 loses one or two trailing
\* "=" first
AtobData(str) ==
    IF str # <<>> /\ Len(str) % 4 = 0 /\ str[Len(str)] = "="
    THEN (IF str[Len(str) - 1] = "="
          THEN SubSeq(str, 1, Len(str) - 2)
          ELSE SubSeq(str, 1, Len(str) - 1))
    ELSE str

\* atob throws on a length of 1 modulo 4 and on a character outside the
\* alphabet
AtobThrows(data) ==
    \/ Len(data) % 4 = 1
    \/ \E k \in 1..Len(data) : \A j \in 1..64 : Base64Chars[j] # data[k]

RECURSIVE AtobBytes(_)
AtobBytes(data) ==
    IF Len(data) < 2 THEN <<>>
    ELSE IF Len(data) = 2
    THEN << Base64Value(data[1]) * 4 + (Base64Value(data[2]) \div 16) >>
    ELSE IF Len(data) = 3
    THEN << Base64Value(data[1]) * 4 + (Base64Value(data[2]) \div 16),
            (Base64Value(data[2]) % 16) * 16 + (Base64Value(data[3]) \div 4) >>
    ELSE << Base64Value(data[1]) * 4 + (Base64Value(data[2]) \div 16),
            (Base64Value(data[2]) % 16) * 16 + (Base64Value(data[3]) \div 4),
            (Base64Value(data[3]) % 4) * 64 + Base64Value(data[4]) >>
         \o AtobBytes(SubSeq(data, 5, Len(data)))

\* the padding is '==='.slice(0, (4 - (base64.length % 4)) % 4); atob is in
\* a try block and the bytes are none when it throws
PaddedBytes(padded) ==
    IF AtobThrows(AtobData(padded)) THEN <<>> ELSE AtobBytes(AtobData(padded))

fromBase64(str) ==
    IF Len(str) = 0 THEN <<>>
    ELSE PaddedBytes(ReplaceAll(ReplaceAll(str, "-", "+"), "_", "/")
                     \o SubSeq(<<"=", "=", "=">>, 1, (4 - (Len(str) % 4)) % 4))

\* what decodeStateCode returns: the data, or null
StateCodeData(seed, inclusionMask, swaps, colorOverrides, hashMismatch) ==
    [null |-> FALSE, seed |-> seed, inclusionMask |-> inclusionMask, swaps |-> swaps,
     colorOverrides |-> colorOverrides, hashMismatch |-> hashMismatch]

NullStateCodeData ==
    [null |-> TRUE, seed |-> 0, inclusionMask |-> <<>>, swaps |-> <<>>,
     colorOverrides |-> <<>>, hashMismatch |-> FALSE]

encodeStateCode(filenames, seed, inclusionMask, swaps, colorOverrides) ==
    seedToString(seed) \o <<":">>
    \o (IF \A k \in 1..Len(inclusionMask) : inclusionMask[k]
        THEN <<>>
        ELSE toBase64(packBits(inclusionMask))) \o <<":">>
    \o toBase64(encodeSwaps(swaps)) \o <<":">>
    \o toBase64(encodeColorOverrides(colorOverrides)) \o <<":">>
    \o hashImageSet(filenames)

\* decodeStateCode returning null for the hash of another image set
DecodePartsSameSetOnly(seed, parts, filenames) ==
    IF parts[5] # hashImageSet(filenames) THEN NullStateCodeData
    ELSE StateCodeData(seed,
                       IF Len(parts[2]) # 0
                       THEN unpackBits(fromBase64(parts[2]), Len(filenames))
                       ELSE [k \in 1..Len(filenames) |-> TRUE],
                       decodeSwaps(fromBase64(parts[3])),
                       decodeColorOverrides(fromBase64(parts[4])),
                       FALSE)

\* decodeStateCode with fromBase64 letting the error of atob through to the
\* catch of decodeStateCode
DecodePartsUncaught(seed, parts, filenames) ==
    IF \E k \in 2..4 :
          /\ Len(parts[k]) # 0
          /\ AtobThrows(AtobData(ReplaceAll(ReplaceAll(parts[k], "-", "+"), "_", "/")
                                 \o SubSeq(<<"=", "=", "=">>, 1,
                                           (4 - (Len(parts[k]) % 4)) % 4)))
    THEN NullStateCodeData
    ELSE StateCodeData(seed,
                       IF Len(parts[2]) # 0
                       THEN unpackBits(fromBase64(parts[2]), Len(filenames))
                       ELSE [k \in 1..Len(filenames) |-> TRUE],
                       decodeSwaps(fromBase64(parts[3])),
                       decodeColorOverrides(fromBase64(parts[4])),
                       parts[5] # hashImageSet(filenames))

\* decodeStateCode once the seed is accepted
DecodeParts(seed, parts, filenames) ==
    StateCodeData(seed,
                  IF Len(parts[2]) # 0
                  THEN unpackBits(fromBase64(parts[2]), Len(filenames))
                  ELSE [k \in 1..Len(filenames) |-> TRUE],
                  decodeSwaps(fromBase64(parts[3])),
                  decodeColorOverrides(fromBase64(parts[4])),
                  parts[5] # hashImageSet(filenames))

DecodeSeed(seed, parts, filenames) ==
    IF seed.nan \/ seed.value < 0 \/ seed.value > MAX_SEED THEN NullStateCodeData
    ELSE DecodeParts(seed.value, parts, filenames)

decodeStateCode(code, filenames) ==
    IF Len(Split(code, ":")) # 5 THEN NullStateCodeData
    ELSE DecodeSeed(stringToSeed(Split(code, ":")[1]), Split(code, ":"), filenames)

\* /^[0-9a-z]+$/i.test(str)
IsAlphanumeric(str) == str # <<>> /\ \A k \in 1..Len(str) : DigitValue(str[k]) >= 0

\* isValidStateCode without the test of the characters
ValidSeedFieldByValue(field) ==
    ~(stringToSeed(field).nan \/ stringToSeed(field).value < 0
      \/ stringToSeed(field).value > MAX_SEED)

\* isValidStateCode once the field count is accepted
ValidSeedField(field) ==
    /\ IsAlphanumeric(field)
    /\ ~(stringToSeed(field).nan \/ stringToSeed(field).value < 0
         \/ stringToSeed(field).value > MAX_SEED)

isValidStateCode(code) ==
    IF Len(Split(code, ":")) # 5 THEN FALSE ELSE ValidSeedField(Split(code, ":")[1])

(***************************************************************************)
(* The image lists the model draws from.  Within a list every pair of      *)
(* colours is at an integral distance, so Math.sqrt and the sums of the    *)
(* annealer are exact.  File names are sequences of characters.            *)
(***************************************************************************)
Colour(l, c, h) == [l |-> l, c |-> c, h |-> h]
Image(name, colors) == [filename |-> name, colors |-> colors]

\* primary hues 10, 200, 90, 300 first; then a tie on the hue and an
\* image with two colours
HueImages ==
    << Image(<<"p", "2">>, <<Colour(60, 15, 10)>>),
       Image(<<"p", "1">>, <<Colour(60, 15, 200)>>),
       Image(<<"q">>,      <<Colour(60, 15, 90)>>),
       Image(<<"p", "3">>, <<Colour(60, 15, 300)>>),
       Image(<<"a">>,      <<Colour(60, 15, 90)>>),
       Image(<<"r">>,      <<Colour(60, 15, 200), Colour(60, 15, 10)>>),
       Image(<<"b">>,      <<Colour(60, 15, 350)>>) >>

\* the corners of a rectangle with sides 12 and 9 in (l, c, h): the three
\* sort axes order them differently
BoxImages ==
    << Image(<<"p", "2">>, <<Colour(40, 10, 100)>>),
       Image(<<"p", "1">>, <<Colour(48, 6, 108)>>),
       Image(<<"q">>,      <<Colour(46, 16, 97)>>),
       Image(<<"p", "3">>, <<Colour(54, 12, 105)>>),
       Image(<<"a">>,      <<Colour(48, 6, 108)>>),
       Image(<<"r">>,      <<Colour(54, 12, 105), Colour(40, 10, 100)>>),
       Image(<<"b">>,      <<Colour(46, 16, 97)>>) >>

(***************************************************************************)
(* Calls of arrangeImages.                                                 *)
(***************************************************************************)
MaxImages == 4
MaxRows == 2
MaxCols == 2
MaxCalls == 2

Catalogues == {HueImages, BoxImages}

\* the slider's ends; the annealer runs on the default seed and axis only
ParamChoices ==
    { p \in [sortAxis : {"hue", "lightness", "chroma"}, entropyFactor : {0, 100},
             neighborRadius : {0, 1}, squareSmoothing : BOOLEAN,
             seed : {42, MAX_SEED}] :
        /\ p.neighborRadius = 0 =>
             ~p.squareSmoothing /\ (p.seed = 42 \/ p.entropyFactor > 0)
        /\ p.neighborRadius > 0 =>
             p.seed = 42 /\ p.sortAxis = "hue" /\ p.entropyFactor = 0 }

InputsOf(cat, n) ==
    { [images |-> SubSeq(cat, 1, n), rows |-> r, cols |-> c, params |-> p, mask |-> m] :
        r \in 1..MaxRows, c \in 1..MaxCols, p \in ParamChoices,
        m \in {NoMask} \cup { Mask(bits) : bits \in [1..n -> BOOLEAN] } }

ArrangeInputs ==
    { in \in UNION { InputsOf(cat, n) : cat \in Catalogues, n \in 0..MaxImages } :
        in.params.neighborRadius > 0 =>
            /\ ~in.mask.given
            /\ in.rows = MaxRows /\ in.cols = MaxCols
            /\ Len(in.images) = MaxImages }

\* no call of arrangeImages made or to be made
NoInput == [images |-> <<>>, rows |-> 0, cols |-> 0, mask |-> NoMask,
            params |-> [sortAxis |-> "hue", entropyFactor |-> 0, neighborRadius |-> 0,
                        squareSmoothing |-> FALSE, seed |-> 0]]
ArrangeIdle == input = NoInput /\ results = <<>> /\ generator = 0

\* no call of applySwap or swapInGrid made
NoCall == [op |-> "none", from |-> GridLocation(0, 0), to |-> GridLocation(0, 0),
           state |-> NoState, value |-> NoState, count |-> 0]
NotReturned == [threw |-> FALSE, state |-> NoState]
SwapIdle == heap = <<>> /\ held = NoState /\ before = NoCall /\ returned = NotReturned

(***************************************************************************)
(* The App component (the App function in src/src/lib/imageData.ts) once   *)
(* the images are loaded: the effect that generates the arrangement and    *)
(* the handlers of the regenerate button, of a drop and of a pasted state  *)
(* code.  An effect runs before the next event is handled.  The smoothing  *)
(* is switched off in the controls (neighborRadius 0).                     *)
(***************************************************************************)
MaxAppImages == 3
MaxAppSwaps == 2

\* the App's state; a null arrangement is NoState
AppState(images, gridSize, params, arrangement, swaps, inclusionMask, colorOverrides, warning) ==
    [images |-> images, gridSize |-> gridSize, params |-> params,
     arrangement |-> arrangement, swaps |-> swaps, inclusionMask |-> inclusionMask,
     colorOverrides |-> colorOverrides, hashMismatchWarning |-> warning]

\* no App mounted
AppIdle ==
    /\ app = AppState(<<>>, [rows |-> 0, cols |-> 0], NoInput.params, NoState, <<>>,
                      <<>>, <<>>, FALSE)
    /\ effectPending = FALSE

\* images.map((_, i) => i < totalCells)
FirstCellsMask(imgs, size) == [k \in 1..Len(imgs) |-> (k - 1) < size.rows * size.cols]

\* images.map(img => img.filename)
FilenamesOf(imgs) == [k \in 1..Len(imgs) |-> imgs[k].filename]

\* the filenames of the images in the grid
GridFilenames(imgs, state) ==
    { imgs[img].filename :
        img \in UNION { { state.grid[r][c] : c \in 1..Len(state.grid[r]) } :
                         r \in 1..Len(state.grid) } \ {Null} }

\* the updater handleSwap gives to setInclusionMask
SwapMask(prev, imgs, newArrangement) ==
    [k \in 1..Max(Len(prev), Len(imgs)) |->
        IF k <= Len(imgs)
        THEN imgs[k].filename \in GridFilenames(imgs, newArrangement)
        ELSE prev[k]]

\* images.findIndex(img => img.filename === filename), -1 when none
FindIndex(imgs, filename) ==
    IF \E k \in 1..Len(imgs) : imgs[k].filename = filename
    THEN (CHOOSE k \in 1..Len(imgs) :
              /\ imgs[k].filename = filename
              /\ \A j \in 1..(k - 1) : imgs[j].filename # filename) - 1
    ELSE -1

\* The colorOverrides map, in insertion order: a sequence of
\* [filename, colorIndex, rgb], the key being filename:colorIndex.
RECURSIVE OverrideEntries(_, _)
OverrideEntries(overrides, imgs) ==
    IF overrides = <<>> THEN <<>>
    ELSE (IF FindIndex(imgs, overrides[1].filename) # -1
          THEN << ColorOverrideEntry(FindIndex(imgs, overrides[1].filename),
                                     overrides[1].colorIndex, overrides[1].rgb) >>
          ELSE <<>>)
         \o OverrideEntries(Tail(overrides), imgs)

colorOverrideEntries == OverrideEntries(app.colorOverrides, app.images)

stateCode ==
    IF Len(app.images) = 0 THEN <<>>
    ELSE encodeStateCode(FilenamesOf(app.images), app.params.seed, app.inclusionMask,
                         app.swaps, colorOverrideEntries)

\* Map.prototype.set
MapSet(map, filename, colorIndex, rgb) ==
    IF \E k \in 1..Len(map) : map[k].filename = filename /\ map[k].colorIndex = colorIndex
    THEN [k \in 1..Len(map) |->
            IF map[k].filename = filename /\ map[k].colorIndex = colorIndex
            THEN [map[k] EXCEPT !.rgb = rgb] ELSE map[k]]
    ELSE Append(map, [filename |-> filename, colorIndex |-> colorIndex, rgb |-> rgb])

\* the loop of handleApplyCode over decoded.colorOverrides
RECURSIVE DecodedOverrides(_, _, _)
DecodedOverrides(map, entries, imgs) ==
    IF entries = <<>> THEN map
    ELSE DecodedOverrides(
             IF entries[1].imageIndex < Len(imgs)
             THEN MapSet(map, imgs[entries[1].imageIndex + 1].filename,
                         entries[1].colorIndex, entries[1].rgb)
             ELSE map,
             Tail(entries), imgs)

\* the loop of handleApplyCode over decoded.swaps; newArrangement is
\* Ok(state), or Thrown once a call has thrown
RECURSIVE ReplaySwaps(_, _)
ReplaySwaps(newArrangement, recorded) ==
    IF newArrangement.threw \/ recorded = <<>> THEN newArrangement
    ELSE ReplaySwaps(applySwapOf(newArrangement.value, recorded[1].from, recorded[1].to),
                     Tail(recorded))

\* the arrangement handleApplyCode builds from a decoded code
DecodedArrangement(imgs, size, newParams, data) ==
    ReplaySwaps(arrangeImages(imgs, size.rows, size.cols, newParams,
                              Mask(data.inclusionMask)),
                data.swaps)

\* no call of encodeStateCode or decodeStateCode made or to be made
Encoding(filenames, seed, inclusionMask, swaps, colorOverrides) ==
    [filenames |-> filenames, seed |-> seed, inclusionMask |-> inclusionMask,
     swaps |-> swaps, colorOverrides |-> colorOverrides]
NoCode == <<>>
NotDecoded == [returned |-> FALSE, data |-> NullStateCodeData]
CodecIdle ==
    encoding = Encoding(<<>>, 0, <<>>, <<>>, <<>>) /\ encoded = NoCode /\ decoded = NotDecoded

\* no call made
NotInvoked == [op |-> "none"]
NoOutcome == [returned |-> FALSE]
CallIdle == invoked = NotInvoked /\ outcome = NoOutcome

InitArrange ==
    /\ input \in ArrangeInputs
    /\ results = <<>>
    /\ generator = 0
    /\ SwapIdle
    /\ CodecIdle
    /\ AppIdle
    /\ CallIdle

\* one call of arrangeImages with the arguments of input
Arrange ==
    /\ Len(results) < MaxCalls
    /\ \E call \in { ArrangeCall(input.images, input.rows, input.cols,
                                  input.params, input.mask) } :
           /\ results' = Append(results, call.result)
           /\ generator' = call.rng
    /\ UNCHANGED <<input, swapVars, codecVars, appVars, callVars>>

SpecArrange == InitArrange /\ [][Arrange]_vars

(***************************************************************************)
(* Calls of applySwap and swapInGrid, each on the state the previous call  *)
(* returned.                                                               *)
(***************************************************************************)
MaxSwapImages == 3
MaxSwapCalls == 2

SwapGridSizes == {<<1, 2>>, <<2, 1>>}

\* images 1 .. n laid out row by row, the rest in the bucket
InitialLayout(rows, cols, n) ==
    [grid   |-> PlaceImages([i \in 1..n |-> i], rows, cols),
     bucket |-> SubSeq([i \in 1..n |-> i], rows * cols + 1, n),
     rows   |-> rows, cols |-> cols]

\* the cells of the grid and one row and one column outside it
GridLocations(value) ==
    { GridLocation(r, c) : r \in 0..value.rows, c \in 0..value.cols }

\* the positions of the bucket, its length and one index beyond it
BucketLocations(value) ==
    { BucketLocation(i) : i \in 0..(Len(value.bucket) + 1) }

InitSwap ==
    /\ ArrangeIdle
    /\ CodecIdle
    /\ AppIdle
    /\ CallIdle
    /\ \E size \in SwapGridSizes, n \in 0..MaxSwapImages :
          /\ heap = Intern(InitialLayout(size[1], size[2], n)).heap
          /\ held = Intern(InitialLayout(size[1], size[2], n)).state
    /\ before = NoCall
    /\ returned = NotReturned

\* the caller's bookkeeping around a call: passed = [heap, state] is what went
\* in, called = [threw, heap, state] what came out
AfterCall(op, from, to, passed, called) ==
    /\ heap' = called.heap
    /\ before' = [op |-> op, from |-> from, to |-> to, state |-> passed.state,
                  value |-> Deref(passed.heap, passed.state),
                  count |-> before.count + 1]
    /\ returned' = [threw |-> called.threw,
                    state |-> IF called.threw THEN NoState ELSE called.state]
    /\ held' = IF called.threw THEN passed.state ELSE called.state
    /\ UNCHANGED <<arrangeVars, codecVars, appVars, callVars>>

\* applySwap(held, from, to); only the arrays of held are kept from before
ApplySwapCall ==
    /\ before.count < MaxSwapCalls
    /\ \E passed \in { Intern(Deref(heap, held)) } :
       \E from, to \in GridLocations(held) \cup BucketLocations(Deref(heap, held)) :
       \E called \in { applySwap(passed.heap, passed.state, from, to) } :
          AfterCall("applySwap", from, to, passed, called)

\* swapInGrid(held, pos1, pos2)
SwapInGridCall ==
    /\ before.count < MaxSwapCalls
    /\ \E passed \in { Intern(Deref(heap, held)) } :
       \E pos1, pos2 \in GridLocations(held) :
       \E called \in { swapInGrid(passed.heap, passed.state, pos1, pos2) } :
          AfterCall("swapInGrid", pos1, pos2, passed, called)

NextSwap == ApplySwapCall \/ SwapInGridCall

SpecSwap == InitSwap /\ [][NextSwap]_vars

(***************************************************************************)
(* One state code made by encodeStateCode and read back by                 *)
(* decodeStateCode against the same filenames.                             *)
(***************************************************************************)
MaxFilenames == 9
MaxCodecSwaps == 2
MaxCodecOverrides == 2

\* n filenames, not in sorted order
Filenames(n) == [k \in 1..n |-> <<"s">> \o ToBase36(k * 7) \o <<".", "p", "n", "g">>]

\* swaps between locations at both ends of what encodeLocation keeps
CodecSwaps ==
    { swap \in { SwapRecord(from, to) :
                   from, to \in {GridLocation(0, 0), GridLocation(127, 255),
                                 BucketLocation(0), BucketLocation(32767)} } :
        swap.from # swap.to }
CodecOverrides ==
    {ColorOverrideEntry(0, 0, RGBColor(0, 0, 0)),
     ColorOverrideEntry(258, 3, RGBColor(4, 5, 6)),
     ColorOverrideEntry(65535, 255, RGBColor(255, 255, 255))}

SeqsUpTo(S, n) == UNION { [1..k -> S] : k \in 0..n }

\* The arguments drawn: every mask of every number of filenames; every
\* seed with every mask of two filenames; every list of swaps with no
\* override or one; every list of overrides with no swap or one.
CodecInputs ==
    UNION { { Encoding(Filenames(n), 42, mask, <<>>, <<>>) : mask \in [1..n -> BOOLEAN] } :
            n \in 0..MaxFilenames }
    \cup { Encoding(Filenames(2), seed, mask, <<>>, <<>>) :
             seed \in {0, 42, MAX_SEED}, mask \in [1..2 -> BOOLEAN] }
    \cup { Encoding(Filenames(3), 42, mask, swaps, overrides) :
             mask \in {<<TRUE, TRUE, TRUE>>, <<TRUE, FALSE, TRUE>>},
             swaps \in SeqsUpTo(CodecSwaps, MaxCodecSwaps),
             overrides \in {<<>>, <<ColorOverrideEntry(65535, 255,
                                                       RGBColor(255, 255, 255))>>} }
    \cup { Encoding(Filenames(3), 42, mask, swaps, overrides) :
             mask \in {<<TRUE, TRUE, TRUE>>, <<TRUE, FALSE, TRUE>>},
             swaps \in {<<>>, <<SwapRecord(GridLocation(127, 255),
                                          BucketLocation(32767))>>},
             overrides \in SeqsUpTo(CodecOverrides, MaxCodecOverrides) }

InitCodec ==
    /\ ArrangeIdle
    /\ SwapIdle
    /\ AppIdle
    /\ CallIdle
    /\ encoding \in CodecInputs
    /\ encoded = NoCode
    /\ decoded = NotDecoded

\* encodeStateCode with the arguments of encoding
Encode ==
    /\ encoded = NoCode
    /\ encoded' = encodeStateCode(encoding.filenames, encoding.seed,
                                  encoding.inclusionMask, encoding.swaps,
                                  encoding.colorOverrides)
    /\ UNCHANGED <<arrangeVars, swapVars, appVars, callVars, encoding, decoded>>

\* decodeStateCode of the code made, with the filenames it was made for
Decode ==
    /\ encoded # NoCode
    /\ ~decoded.returned
    /\ decoded' = [returned |-> TRUE,
                   data |-> decodeStateCode(encoded, encoding.filenames)]
    /\ UNCHANGED <<arrangeVars, swapVars, appVars, callVars, encoding, encoded>>

NextCodec == Encode \/ Decode

SpecCodec == InitCodec /\ [][NextCodec]_vars

(***************************************************************************)
(* Colour extraction (src/unnamed/part_000).  The image data of the canvas *)
(* is a sequence of pixels <<r, g, b, a>>, row by row; loading the image,  *)
(* drawing it and the blob URL are left out.  smartThreshold is in         *)
(* hundredths: for the thresholds drawn, 0.1, 0.25 and 0.3, the double     *)
(* totalPixels * smartThreshold compares with an integer as the exact      *)
(* product does.                                                           *)
(***************************************************************************)
\* SkipsPixel keeping a pixel whose alpha is below 128
SkipsPixelWhateverAlpha(r, g, b, a) ==
    \/ (r > 240 /\ g > 240 /\ b > 240)
    \/ (r < 15 /\ g < 15 /\ b < 15)
    \/ (Max(r, Max(g, b)) - Min(r, Min(g, b)) < 20 /\ r + g + b > 540)

\* the tests before pixels.push; avg > 180 is r + g + b > 540
SkipsPixel(r, g, b, a) ==
    \/ a < 128
    \/ (r > 240 /\ g > 240 /\ b > 240)
    \/ (r < 15 /\ g < 15 /\ b < 15)
    \/ (Max(r, Max(g, b)) - Min(r, Min(g, b)) < 20 /\ r + g + b > 540)

\* the loop of img.onload from pixel pixelIndex on
RECURSIVE PixelLoop(_, _, _)
PixelLoop(data, width, pixelIndex) ==
    IF pixelIndex >= Len(data) THEN <<>>
    ELSE (IF SkipsPixel(data[pixelIndex + 1][1], data[pixelIndex + 1][2],
                        data[pixelIndex + 1][3], data[pixelIndex + 1][4])
          THEN <<>>
          ELSE << [color |-> RGBColor(data[pixelIndex + 1][1], data[pixelIndex + 1][2],
                                      data[pixelIndex + 1][3]),
                   x |-> pixelIndex % width, y |-> pixelIndex \div width] >>)
         \o PixelLoop(data, width, pixelIndex + 1)

\* what extractPixelData resolves with, but for the blob URL
extractPixelData(data, width) ==
    [pixels |-> PixelLoop(data, width, 0), width |-> width,
     height |-> Len(data) \div width]

RankedColor(color, rgb, position, pixelCount) ==
    [color |-> color, rgb |-> rgb, position |-> position, pixelCount |-> pixelCount]

GrayPlaceholder == RankedColor(Colour(50, 0, 0), RGBColor(128, 128, 128), "center", 0)

\* the fixed mode without its while loop
PadWithNothing(result, numColors) == result

\* the while loop of the fixed mode
RECURSIVE PadWithGray(_, _)
PadWithGray(result, numColors) ==
    IF Len(result) < numColors THEN PadWithGray(Append(result, GrayPlaceholder), numColors)
    ELSE result

\* allColors.filter(c => c.pixelCount >= thresholdCount)
MeetingThreshold(allColors, totalPixels, smartThreshold) ==
    SelectSeq(allColors, LAMBDA c : c.pixelCount * 100 >= totalPixels * smartThreshold)

deriveActiveColors(allColors, totalPixels, settings) ==
    IF Len(allColors) = 0 THEN <<GrayPlaceholder>>
    ELSE IF settings.smartDetection
    THEN (IF Len(MeetingThreshold(allColors, totalPixels, settings.smartThreshold)) > 0
          THEN MeetingThreshold(allColors, totalPixels, settings.smartThreshold)
          ELSE <<allColors[1]>>)
    ELSE SubSeq(PadWithGray(allColors, settings.numColors), 1,
                Min(settings.numColors,
                    Len(PadWithGray(allColors, settings.numColors))))

\* the mean sample position against the middle of the image, times
\* 4 * pixels.length: dx is avgX - width / 2 and the threshold is
\* Math.min(width, height) * 0.25, so the three are integers at this scale
RECURSIVE SumOf(_, _)
SumOf(pixels, axis) ==
    IF pixels = <<>> THEN 0
    ELSE (IF axis = "x" THEN pixels[1].x ELSE pixels[1].y) + SumOf(Tail(pixels), axis)

\* the primary direction, were the comparison of the magnitudes >=
PrimaryDirectionHorizontalOnTie(dx, dy) ==
    IF Abs(dx) >= Abs(dy) THEN (IF dx > 0 THEN "right" ELSE "left")
    ELSE (IF dy > 0 THEN "bottom" ELSE "top")

\* if (Math.abs(dx) > Math.abs(dy)) ... else ...
PrimaryDirection(dx, dy) ==
    IF Abs(dx) > Abs(dy) THEN (IF dx > 0 THEN "right" ELSE "left")
    ELSE (IF dy > 0 THEN "bottom" ELSE "top")

computeColorPosition(pixels, width, height) ==
    IF Len(pixels) = 0 THEN "center"
    ELSE LET dx == 4 * SumOf(pixels, "x") - 2 * Len(pixels) * width
             dy == 4 * SumOf(pixels, "y") - 2 * Len(pixels) * height
             threshold == Len(pixels) * Min(width, height)
         IN  IF Abs(dx) < threshold /\ Abs(dy) < threshold THEN "center"
             ELSE PrimaryDirection(dx, dy)

(***************************************************************************)
(* The clustering of the samples.  The samples of the model are greys      *)
(* (r = g = b), so are the means that become centroids.  On the grey axis  *)
(* rgbToLab gives a and b below 0.00002 and the distance is the            *)
(* difference of the lightness l = 116 * fy - 16; LabLightness is l        *)
(* times 1000000, rounded, for the greys 0 to 255.  For greys of 11 and    *)
(* above, 'dist < minDist' on the doubles of colorDistanceLab and on the   *)
(* differences of this table agree for every sample and pair of centroids. *)
(***************************************************************************)
LabLightness ==
    << 0, 274174, 548347, 822521, 1096694, 1370868, 1645041, 1919215,
       2193388, 2467562, 2741735, 3022899, 3320960, 3635495, 3966755, 4314984,
       4680423, 5063306, 5463863, 5882320, 6318899, 6773816, 7247287, 7739520,
       8248187, 8757012, 9263235, 9766935, 10268185, 10767055, 11263611, 11757917,
       12250031, 12740011, 13227912, 13713785, 14197679, 14679643, 15159721, 15637957,
       16114393, 16589067, 17062020, 17533287, 18002904, 18470905, 18937323, 19402189,
       19865535, 20327388, 20787778, 21246733, 21704277, 22160438, 22615239, 23068706,
       23520860, 23971725, 24421321, 24869671, 25316795, 25762712, 26207442, 26651004,
       27093415, 27534694, 27974857, 28413922, 28851904, 29288819, 29724684, 30159512,
       30593318, 31026117, 31457922, 31888747, 32318606, 32747511, 33175474, 33602508,
       34028625, 34453836, 34878154, 35301588, 35724151, 36145853, 36566703, 36986713,
       37405892, 37824250, 38241797, 38658542, 39074494, 39489662, 39904055, 40317682,
       40730550, 41142668, 41554045, 41964688, 42374605, 42783804, 43192292, 43600076,
       44007164, 44413562, 44819278, 45224319, 45628691, 46032401, 46435455, 46837859,
       47239621, 47640745, 48041238, 48441106, 48840355, 49238990, 49637017, 50034441,
       50431268, 50827504, 51223153, 51618221, 52012713, 52406633, 52799987, 53192780,
       53585016, 53976700, 54367837, 54758430, 55148486, 55538008, 55927000, 56315467,
       56703413, 57090842, 57477759, 57864167, 58250070, 58635472, 59020377, 59404790,
       59788713, 60172150, 60555106, 60937583, 61319585, 61701116, 62082180, 62462779,
       62842917, 63222597, 63601823, 63980598, 64358925, 64736807, 65114248, 65491250,
       65867816, 66243950, 66619654, 66994932, 67369786, 67744219, 68118234, 68491834,
       68865021, 69237798, 69610169, 69982134, 70353698, 70724863, 71095631, 71466005,
       71835987, 72205580, 72574786, 72943608, 73312047, 73680108, 74047791, 74415099,
       74782034, 75148599, 75514796, 75880627, 76246094, 76611199, 76975945, 77340333,
       77704367, 78068047, 78431376, 78794355, 79156988, 79519275, 79881220, 80242822,
       80604086, 80965012, 81325603, 81685860, 82045785, 82405380, 82764647, 83123587,
       83482203, 83840496, 84198468, 84556120, 84913455, 85270473, 85627177, 85983569,
       86339649, 86695420, 87050883, 87406040, 87760892, 88115440, 88469688, 88823635,
       89177284, 89530635, 89883692, 90236454, 90588923, 90941102, 91292990, 91644590,
       91995904, 92346932, 92697676, 93048137, 93398317, 93748217, 94097838, 94447182,
       94796250, 95145043, 95493562, 95841810, 96189786, 96537493, 96884932, 97232103,
       97579009, 97925650, 98272027, 98618143, 98963997, 99309591, 99654926, 100000004 >>

colorDistanceLab(c1, c2) == Abs(LabLightness[c1.r + 1] - LabLightness[c2.r + 1])

\* the index the second and later draws of the k-means++ initialization
\* stop at: a sample at a distance from every centroid so far, or the first
\* sample (random <= 0 at once, when Math.random() is 0 or every distance
\* is 0); the fallback draws any index.  The first draw is any index
PickedIndexes(pixels, centroids) == 1..Len(pixels)

\* every array of k centroids the initialization can return
RECURSIVE initializeCentroidsKMeansPlusPlus(_, _)
initializeCentroidsKMeansPlusPlus(pixels, k) ==
    IF k = 0 THEN {<<>>}
    ELSE UNION { { Append(centroids, pixels[j].color) :
                     j \in PickedIndexes(pixels, centroids) } :
                 centroids \in initializeCentroidsKMeansPlusPlus(pixels, k - 1) }

\* the array Array.from or map makes, element by element
AsArray(elements) == elements \o <<>>

\* closestIdx after the loop over the centroids: the first index of the
\* least distance, as dist < minDist is strict
ClosestIdx(color, centroids) ==
    LET dist == AsArray([i \in 1..Len(centroids) |->
                            colorDistanceLab(color, centroids[i])])
    IN  CHOOSE i \in 1..Len(centroids) :
            /\ \A j \in 1..Len(centroids) : dist[i] <= dist[j]
            /\ \A j \in 1..(i - 1) : dist[j] > dist[i]

\* the pixels pushed to cluster i, in the order of the pixels
RECURSIVE PushedTo(_, _, _)
PushedTo(pixels, closest, i) ==
    IF pixels = <<>> THEN <<>>
    ELSE (IF closest[1] = i THEN <<pixels[1]>> ELSE <<>>)
         \o PushedTo(Tail(pixels), Tail(closest), i)

\* the clusters after the loop over the pixels of one pass
AssignPixels(pixels, centroids) ==
    LET closest == AsArray([j \in 1..Len(pixels) |->
                               ClosestIdx(pixels[j].color, centroids)])
    IN  AsArray([i \in 1..Len(centroids) |-> PushedTo(pixels, closest, i)])

RECURSIVE SumChannel(_, _)
SumChannel(cluster, channel) ==
    IF cluster = <<>> THEN 0
    ELSE (CASE channel = "r" -> cluster[1].color.r
            [] channel = "g" -> cluster[1].color.g
            [] OTHER -> cluster[1].color.b) + SumChannel(Tail(cluster), channel)

\* Math.round(sum / cluster.length): halves go up
RoundedMean(cluster, channel) ==
    (2 * SumChannel(cluster, channel) + Len(cluster)) \div (2 * Len(cluster))

\* the update, were an empty cluster given a centroid of its own
NewCentroidResetWhenEmpty(oldCentroid, cluster) ==
    IF Len(cluster) = 0 THEN RGBColor(0, 0, 0)
    ELSE RGBColor(RoundedMean(cluster, "r"), RoundedMean(cluster, "g"),
                  RoundedMean(cluster, "b"))

\* the function of centroids.map in the update
NewCentroid(oldCentroid, cluster) ==
    IF Len(cluster) = 0 THEN oldCentroid
    ELSE RGBColor(RoundedMean(cluster, "r"), RoundedMean(cluster, "g"),
                  RoundedMean(cluster, "b"))

\* k and maxIterations of kMeansClustering(pixels, 5)
ClusterCount == 5
MaxIterations == 20

\* the array left in the order of the clusters
LeftUnsorted(colors) == colors

RECURSIVE InsertByPixelCount(_, _)
InsertByPixelCount(sorted, color) ==
    IF sorted = <<>> THEN <<color>>
    ELSE IF sorted[1].pixelCount >= color.pixelCount
    THEN <<sorted[1]>> \o InsertByPixelCount(Tail(sorted), color)
    ELSE <<color>> \o sorted

\* .sort((a, b) => b.pixelCount - a.pixelCount), a stable sort
RECURSIVE SortByPixelCount(_)
SortByPixelCount(colors) ==
    IF colors = <<>> THEN <<>>
    ELSE InsertByPixelCount(SortByPixelCount(SubSeq(colors, 1, Len(colors) - 1)),
                            colors[Len(colors)])

\* one pass of the loop: the centroids it had, the clusters it made and the
\* centroids it left
KMeansPass(pixels, centroids, clusters) ==
    [before |-> centroids, clusters |-> clusters,
     centroids |-> AsArray([i \in 1..Len(centroids) |->
                               NewCentroid(centroids[i], clusters[i])])]

\* the loop of kMeansClustering from pass iter on (there is no early exit).
\* A pass that leaves the centroids as they were makes every later pass the
\* same: the same centroids give the same clusters and the same means
RECURSIVE KMeansLoop(_, _, _, _)
KMeansLoop(pixels, centroids, passes, iter) ==
    IF iter >= MaxIterations THEN passes
    ELSE LET pass == KMeansPass(pixels, centroids, AssignPixels(pixels, centroids))
         IN  IF pass.centroids = centroids
             THEN passes \o [t \in 1..(MaxIterations - iter) |-> pass]
             ELSE KMeansLoop(pixels, pass.centroids, Append(passes, pass), iter + 1)

\* kMeansClustering for the centroids the initialization drew: the clusters
\* returned, and the passes made
kMeansClustering(pixels, k, initial) ==
    IF Len(pixels) < k
    THEN [clusters |-> [i \in 1..Len(pixels) |->
                           [centroid |-> pixels[i].color, pixels |-> <<pixels[i]>>]],
          passes |-> <<>>]
    ELSE LET passes == KMeansLoop(pixels, initial, <<>>, 0)
         IN  [clusters |-> [i \in 1..k |->
                               [centroid |-> passes[Len(passes)].centroids[i],
                                pixels |-> passes[Len(passes)].clusters[i]]],
              passes |-> passes]

\* the colours of extractColors from the clusters; color, which is
\* rgbToOklch(cluster.centroid), is left out
RankClusters(clusters, width, height) ==
    SortByPixelCount([i \in 1..Len(clusters) |->
        [rgb |-> clusters[i].centroid,
         position |-> computeColorPosition(clusters[i].pixels, width, height),
         pixelCount |-> Len(clusters[i].pixels)]])

\* what extractColors resolves with, but for the blob URL, from the samples
\* of extractPixelData on; clustering is what kMeansClustering returned
extractColors(pixels, width, height, clustering) ==
    IF Len(pixels) = 0
    THEN [allColors |-> <<GrayPlaceholder>>, totalPixels |-> 0]
    ELSE [allColors |-> RankClusters(clustering.clusters, width, height),
          totalPixels |-> Len(pixels)]

(***************************************************************************)
(* Calls of the codec's functions on their own: decodeStateCode and        *)
(* isValidStateCode on strings that no encodeStateCode made, and           *)
(* decodeStateCode with the filenames of encodeStateCode in another order, *)
(* packBits with unpackBits and encodeSwaps with decodeSwaps.              *)
(***************************************************************************)
MaxFields == 6
MaxBits == 9

CallFilenames == << <<"b">>, <<"a">>, <<"c">> >>

\* first fields: none, the ends of the range, 36^4 and more, signs, a
\* character that is no digit after and before a digit, a capital
SeedFields ==
    { <<>>, <<"0", "0", "0", "0">>, <<"z", "z", "z", "z">>,
      <<"1", "0", "0", "0", "0">>, <<"z", "z", "z", "z", "z">>,
      <<"-", "1">>, <<"-", "0">>, <<"+", "1">>,
      <<"1", "!">>, <<"!", "1">>, <<"A", "0">> }

\* fields in the place of a base64 payload: none, the payload of a mask, of
\* one swap and of one override, one character, characters outside the
\* alphabet
PayloadFields ==
    { <<>>, toBase64(packBits(<<TRUE, FALSE, TRUE>>)),
      toBase64(encodeSwaps(<< SwapRecord(GridLocation(0, 1), BucketLocation(2)) >>)),
      toBase64(encodeColorOverrides(<< ColorOverrideEntry(1, 2, RGBColor(3, 4, 5)) >>)),
      <<"A">>, <<"!", "!">> }

HashFields == { hashImageSet(CallFilenames), <<"a", "b", "c", "1", "2", "3">>, <<>> }

\* strings of five fields, and strings "0000", "0000:", ... of another
\* number of fields, the empty string and "bad"
PastedStrings ==
    { Join(<<seed, mask, swaps, overrides, hash>>, ":") :
        seed \in SeedFields,
        mask \in { field \in PayloadFields : Len(field) <= 2 },
        swaps \in PayloadFields \ { toBase64(packBits(<<TRUE, FALSE, TRUE>>)) },
        overrides \in PayloadFields \ { toBase64(packBits(<<TRUE, FALSE, TRUE>>)) },
        hash \in HashFields }
    \cup { Join([k \in 1..n |-> IF k = 1 THEN <<"0", "0", "0", "0">> ELSE <<>>], ":") :
             n \in (1..MaxFields) \ {5} }
    \cup { <<>>, <<"b", "a", "d">> }

\* the strings without swaps and overrides, for other lists of filenames
ShortStrings ==
    { Join(<<seed, mask, <<>>, <<>>, hash>>, ":") :
        seed \in SeedFields,
        mask \in { field \in PayloadFields : Len(field) <= 2 },
        hash \in HashFields }

CodecCalls ==
    { [op |-> "decodeStateCode", code |-> code, filenames |-> CallFilenames] :
        code \in PastedStrings }
    \cup { [op |-> "decodeStateCode", code |-> code, filenames |-> filenames] :
             code \in ShortStrings, filenames \in { <<>>, << <<"a">> >> } }
    \cup { [op |-> "isValidStateCode", code |-> code] : code \in PastedStrings }
    \cup { [op |-> "decodeReordered", filenames |-> CallFilenames,
            reordered |-> [k \in 1..Len(CallFilenames) |-> CallFilenames[order[k]]],
            inclusionMask |-> mask, colorOverrides |-> overrides] :
             order \in Permutations(1..Len(CallFilenames)),
             mask \in [1..Len(CallFilenames) -> BOOLEAN],
             overrides \in {<<>>} \cup
                 { << ColorOverrideEntry(i, 1, RGBColor(4, 5, 6)) >> :
                     i \in 0..(Len(CallFilenames) - 1) } }
    \cup { [op |-> "packBits", bits |-> bits] :
             bits \in UNION { [1..n -> BOOLEAN] : n \in 0..MaxBits } }
    \cup { [op |-> "encodeSwaps", swaps |-> swaps] :
             swaps \in SeqsUpTo({ SwapRecord(from, to) :
                                     from, to \in {GridLocation(0, 0), GridLocation(1, 2),
                                                   GridLocation(127, 255),
                                                   BucketLocation(258),
                                                   BucketLocation(32767)} },
                                 MaxCodecSwaps) }

InitCalls ==
    /\ ArrangeIdle
    /\ SwapIdle
    /\ CodecIdle
    /\ AppIdle
    /\ invoked \in CodecCalls
    /\ outcome = NoOutcome

\* the caller's bookkeeping: the value returned
Return(value) ==
    /\ ~outcome.returned
    /\ outcome' = [returned |-> TRUE, value |-> value]
    /\ UNCHANGED <<arrangeVars, swapVars, codecVars, appVars, invoked>>

DecodeStateCodeCall ==
    /\ invoked.op = "decodeStateCode"
    /\ Return(decodeStateCode(invoked.code, invoked.filenames))

IsValidStateCodeCall ==
    /\ invoked.op = "isValidStateCode"
    /\ Return(isValidStateCode(invoked.code))

\* encodeStateCode for one order of the filenames, decodeStateCode of its
\* code for another
DecodeReorderedCall ==
    /\ invoked.op = "decodeReordered"
    /\ Return(decodeStateCode(encodeStateCode(invoked.filenames, 42,
                                              invoked.inclusionMask, <<>>,
                                              invoked.colorOverrides),
                              invoked.reordered))

\* packBits(bits), and unpackBits of its bytes for bits.length
PackBitsCall ==
    /\ invoked.op = "packBits"
    /\ Return([bytes |-> packBits(invoked.bits),
               bits  |-> unpackBits(packBits(invoked.bits), Len(invoked.bits))])

\* encodeSwaps(swaps), and decodeSwaps of its bytes
EncodeSwapsCall ==
    /\ invoked.op = "encodeSwaps"
    /\ Return([bytes |-> encodeSwaps(invoked.swaps),
               swaps |-> decodeSwaps(encodeSwaps(invoked.swaps))])

NextCalls ==
    \/ DecodeStateCodeCall
    \/ IsValidStateCodeCall
    \/ DecodeReorderedCall
    \/ PackBitsCall
    \/ EncodeSwapsCall

SpecCalls == InitCalls /\ [][NextCalls]_vars

(***************************************************************************)
(* Calls of extractPixelData's loop and of deriveActiveColors.             *)
(***************************************************************************)
MaxPixels == 3
MaxCached == 4
MaxPixelCount == 3
MaxSide == 4

\* clusters of no, one or two samples: their mean positions are exact
\* doubles, as are dx, dy and the threshold
ClusterSizes == {0, 1, 2}

\* the samples of a cluster of an image width by height
ClusterSamples(width, height) ==
    UNION { [1..n -> { [color |-> RGBColor(200, 100, 50), x |-> x, y |-> y] :
                         x \in 0..(width - 1), y \in 0..(height - 1) }] :
            n \in ClusterSizes }

\* pixels on both sides of every test of the loop
SamplePixels ==
    { <<100, 50, 20, 127>>, <<100, 50, 20, 128>>,
      <<241, 241, 241, 255>>, <<14, 14, 14, 255>>, <<15, 14, 14, 255>>,
      <<200, 190, 181, 255>>, <<200, 190, 180, 255>>,
      <<181, 180, 179, 255>>, <<182, 180, 179, 255>> }

\* cached colours as extractColors leaves them: sorted by pixelCount,
\* descending; totalPixels is the sum of the counts
CachedLists ==
    UNION { { [k \in 1..n |-> RankedColor(Colour(60, 15, 10 * k), RGBColor(k, k, k),
                                          "left", counts[k])] :
                counts \in { c \in [1..n -> 0..MaxPixelCount] :
                               \A k \in 1..(n - 1) : c[k] >= c[k + 1] } } :
            n \in 0..MaxCached }

RECURSIVE SumCounts(_)
SumCounts(allColors) ==
    IF allColors = <<>> THEN 0 ELSE allColors[1].pixelCount + SumCounts(Tail(allColors))

\* the settings of the panel: 1 to 5 colours, or a threshold
SettingsChoices ==
    { [numColors |-> n, smartDetection |-> FALSE, smartThreshold |-> 10] : n \in 1..5 }
    \cup { [numColors |-> 3, smartDetection |-> TRUE, smartThreshold |-> t] :
             t \in {10, 25, 30} }

\* colours on both sides of the hue wraparound
SampleColours ==
    { [l |-> l, c |-> c, h |-> h] :
        l \in {50, 62}, c \in {10, 15}, h \in {0, 5, 15, 175, 180, 185, 355, 359} }

\* images of every width and height with at most MaxPixels pixels
ColorCalls ==
    UNION { { [op |-> "extractPixelData", data |-> data, width |-> size[1]] :
                data \in [1..(size[1] * size[2]) -> SamplePixels] } :
            size \in { sz \in (1..MaxPixels) \X (1..MaxPixels) :
                         sz[1] * sz[2] <= MaxPixels } }
    \cup { [op |-> "deriveActiveColors", allColors |-> cached,
            totalPixels |-> SumCounts(cached), settings |-> settings] :
             cached \in CachedLists, settings \in SettingsChoices }
    \cup UNION { { [op |-> "computeColorPosition", pixels |-> pixels,
                    width |-> size[1], height |-> size[2]] :
                     pixels \in ClusterSamples(size[1], size[2]) } :
                 size \in (1..MaxSide) \X (1..MaxSide) }
    \cup { [op |-> "colorDistanceOklch", c1 |-> c1, c2 |-> c2] :
             c1 \in SampleColours, c2 \in SampleColours }

InitColors ==
    /\ ArrangeIdle
    /\ SwapIdle
    /\ CodecIdle
    /\ AppIdle
    /\ invoked \in ColorCalls
    /\ outcome = NoOutcome

ExtractPixelDataCall ==
    /\ invoked.op = "extractPixelData"
    /\ Return(extractPixelData(invoked.data, invoked.width))

\* deriveActiveColors, and the cached list after the call: the function
\* works on the arrays filter and [...allColors] make
DeriveActiveColorsCall ==
    /\ invoked.op = "deriveActiveColors"
    /\ Return([result |-> deriveActiveColors(invoked.allColors, invoked.totalPixels,
                                             invoked.settings),
               allColors |-> invoked.allColors])

ComputeColorPositionCall ==
    /\ invoked.op = "computeColorPosition"
    /\ Return(computeColorPosition(invoked.pixels, invoked.width, invoked.height))

\* colorDistanceOklch, and the call with the arguments exchanged
ColorDistanceOklchCall ==
    /\ invoked.op = "colorDistanceOklch"
    /\ Return([distance |-> colorDistanceOklch(invoked.c1, invoked.c2),
               exchanged |-> colorDistanceOklch(invoked.c2, invoked.c1)])

NextColors ==
    \/ ExtractPixelDataCall
    \/ DeriveActiveColorsCall
    \/ ComputeColorPositionCall
    \/ ColorDistanceOklchCall

SpecColors == InitColors /\ [][NextColors]_vars

(***************************************************************************)
(* extractColors from the samples on: the clustering, then the ranking.    *)
(* The samples are the pixels of one row that extractPixelData keeps.      *)
(***************************************************************************)
MaxSamples == 5

\* greys the pixel loop keeps
GreyLevels == {40, 100, 170}

\* rows of the darkest and the lightest grey in any order, and rows of the
\* three greys from dark to light
SampleRows ==
    UNION { { [i \in 1..n |-> [color |-> RGBColor(greys[i], greys[i], greys[i]),
                               x |-> i - 1, y |-> 0]] :
                greys \in { g \in [1..n -> GreyLevels] :
                              \/ \A i \in 1..n : g[i] # 100
                              \/ \A i \in 1..(n - 1) : g[i] <= g[i + 1] } } :
            n \in 0..MaxSamples }

InitCluster ==
    /\ ArrangeIdle
    /\ SwapIdle
    /\ CodecIdle
    /\ AppIdle
    /\ invoked \in { [op |-> "extractColors", pixels |-> pixels,
                      width |-> Max(Len(pixels), 1), height |-> 1] :
                       pixels \in SampleRows }
    /\ outcome = NoOutcome

\* extractColors, with the clusters and the passes of its kMeansClustering;
\* the initialization is run when there are samples enough
ExtractColorsCall ==
    /\ invoked.op = "extractColors"
    /\ \E initial \in (IF Len(invoked.pixels) >= ClusterCount
                       THEN initializeCentroidsKMeansPlusPlus(invoked.pixels, ClusterCount)
                       ELSE {<<>>}) :
          LET clustering == kMeansClustering(invoked.pixels, ClusterCount, initial)
          IN  Return([clustering |-> clustering,
                      colors |-> extractColors(invoked.pixels, invoked.width,
                                               invoked.height, clustering)])

NextCluster == ExtractColorsCall

SpecCluster == InitCluster /\ [][NextCluster]_vars

(***************************************************************************)
(* The parts of the engine on their own: the generator draw by draw,       *)
(* applyEntropy exchange by exchange and optimizeLocalSmoothness iteration *)
(* by iteration, as arrangeImages calls them: on the indexes of the        *)
(* images, on a grid filled row by row, with 2000 iterations.              *)
(***************************************************************************)
MaxDraws == 40
MaxShuffled == 10
MaxAnnealed == 4

\* the seeds at the ends of the range of the state code, and the default
EngineSeeds == {0, 1, 42, MAX_SEED}

EngineCalls ==
    { [op |-> "seededRandom", seed |-> seed] : seed \in EngineSeeds }
    \cup { [op |-> "applyEntropy", sorted |-> [k \in 1..n |-> k], pct |-> pct,
            seed |-> seed] :
             n \in 0..MaxShuffled, pct \in {0, 50, 100}, seed \in EngineSeeds }
    \cup { [op |-> "optimizeLocalSmoothness", env |-> ImageEnv(SubSeq(HueImages, 1, n)),
            grid |-> PlaceImages([k \in 1..n |-> k], 2, 3), radius |-> radius,
            square |-> square, seed |-> 42] :
             n \in 1..MaxAnnealed, radius \in {0, 1, 2}, square \in BOOLEAN }

InitEngine ==
    /\ ArrangeIdle
    /\ SwapIdle
    /\ CodecIdle
    /\ AppIdle
    /\ invoked \in EngineCalls
    /\ outcome = NoOutcome

\* a call is under way
UnderWay == ~outcome.returned /\ outcome # NoOutcome

EngineStep(next) ==
    /\ outcome' = next
    /\ UNCHANGED <<arrangeVars, swapVars, codecVars, appVars, invoked>>

\* const rng = seededRandom(params.seed)
SeededRandomCall ==
    /\ invoked.op = "seededRandom"
    /\ outcome = NoOutcome
    /\ EngineStep([returned |-> FALSE, rng |-> seededRandom(invoked.seed), calls |-> 0])

\* rng()
RngCall ==
    /\ invoked.op = "seededRandom"
    /\ UnderWay
    /\ outcome.calls < MaxDraws
    /\ EngineStep([outcome EXCEPT !.rng = rngNext(outcome.rng), !.calls = @ + 1])

\* applyEntropy up to its loop: sorted itself is returned for no entropy,
\* otherwise result is a copy of it
EntropyStart ==
    /\ invoked.op = "applyEntropy"
    /\ outcome = NoOutcome
    /\ IF invoked.pct = 0
       THEN Return([result |-> invoked.sorted, sorted |-> invoked.sorted,
                    exchanges |-> 0])
       ELSE EngineStep([returned |-> FALSE, result |-> invoked.sorted,
                        sorted |-> invoked.sorted, rng |-> seededRandom(invoked.seed),
                        exchanges |-> 0])

\* one pass of the loop of applyEntropy
EntropyPass ==
    /\ invoked.op = "applyEntropy"
    /\ UnderWay
    /\ outcome.exchanges < EntropySwapCount(Len(invoked.sorted), invoked.pct)
    /\ \E st \in { EntropyStep([result |-> outcome.result, rng |-> outcome.rng],
                               invoked.pct) } :
          EngineStep([outcome EXCEPT !.result = st.result, !.rng = st.rng,
                                     !.exchanges = @ + 1])

EntropyReturn ==
    /\ invoked.op = "applyEntropy"
    /\ UnderWay
    /\ outcome.exchanges >= EntropySwapCount(Len(invoked.sorted), invoked.pct)
    /\ Return([result |-> outcome.result, sorted |-> outcome.sorted,
               exchanges |-> outcome.exchanges])

\* optimizeLocalSmoothness up to its loop
AnnealStart ==
    /\ invoked.op = "optimizeLocalSmoothness"
    /\ outcome = NoOutcome
    /\ IF invoked.radius = 0 \/ Len(OccupiedFrom(invoked.grid, 0)) < 2
       THEN Return([grid |-> invoked.grid, threw |-> FALSE, iterations |-> 0])
       ELSE EngineStep([returned |-> FALSE, grid |-> invoked.grid,
                        rng |-> seededRandom(invoked.seed), threw |-> FALSE,
                        iterations |-> 0])

\* one iteration of the loop of optimizeLocalSmoothness
AnnealIteration ==
    /\ invoked.op = "optimizeLocalSmoothness"
    /\ UnderWay
    /\ outcome.iterations < AnnealIterations
    /\ ~outcome.threw
    /\ \E st \in { AnnealStep(invoked.env,
                              [grid |-> outcome.grid, rng |-> outcome.rng,
                               threw |-> FALSE],
                              outcome.iterations, OccupiedFrom(invoked.grid, 0),
                              invoked.radius, invoked.square, AnnealIterations) } :
          EngineStep([outcome EXCEPT !.grid = st.grid, !.rng = st.rng,
                                     !.threw = st.threw, !.iterations = @ + 1])

AnnealReturn ==
    /\ invoked.op = "optimizeLocalSmoothness"
    /\ UnderWay
    /\ outcome.iterations >= AnnealIterations \/ outcome.threw
    /\ Return([grid |-> outcome.grid, threw |-> outcome.threw,
               iterations |-> outcome.iterations])

NextEngine ==
    \/ SeededRandomCall
    \/ RngCall
    \/ EntropyStart
    \/ EntropyPass
    \/ EntropyReturn
    \/ AnnealStart
    \/ AnnealIteration
    \/ AnnealReturn

SpecEngine == InitEngine /\ [][NextEngine]_vars

(***************************************************************************)
(* The StateCodeInput component (src/src/components/StateCodeInput.tsx).   *)
(* invoked holds its props, outcome its state: inputValue, isEditing and   *)
(* isValid, whether the input element has the focus, and the last call of  *)
(* onApplyCode with the state code of the render it was made in.  A        *)
(* handler runs with the values of the last render; its updates are        *)
(* rendered together and the effect follows when a dependency changed.     *)
(***************************************************************************)
\* the codes the App shows: none while no image is loaded, and two codes
ShownCodes ==
    { <<>>,
      encodeStateCode(CallFilenames, 42, <<TRUE, TRUE, TRUE>>, <<>>, <<>>),
      encodeStateCode(CallFilenames, 7, <<TRUE, FALSE, TRUE>>, <<>>, <<>>) }

\* what a user leaves in the field: nothing, a code, a string that is no
\* code, and five fields whose first is no seed
TypedStrings ==
    ShownCodes \cup { <<"b", "a", "d">>, <<"1", "!", ":", ":", ":", ":">> }

NotApplied == [called |-> FALSE, code |-> <<>>, current |-> <<>>]

InitInput ==
    /\ ArrangeIdle
    /\ SwapIdle
    /\ CodecIdle
    /\ AppIdle
    /\ \E code \in ShownCodes :
          /\ invoked = [op |-> "StateCodeInput", stateCode |-> code]
          /\ outcome = [inputValue |-> code, isEditing |-> FALSE, isValid |-> TRUE,
                        focused |-> FALSE, applied |-> NotApplied]

\* the effect with the dependencies [stateCode, isEditing], run after a
\* render in which one of them changed
SyncEffect(state, code, changed) ==
    IF changed /\ ~state.isEditing
    THEN [state EXCEPT !.inputValue = code, !.isValid = TRUE]
    ELSE state

\* a render of the component: its props and its state, the effect run
Rendered(code, state) ==
    /\ invoked' = [invoked EXCEPT !.stateCode = code]
    /\ outcome' = SyncEffect(state, code,
                             code # invoked.stateCode
                               \/ state.isEditing # outcome.isEditing)
    /\ UNCHANGED <<arrangeVars, swapVars, codecVars, appVars>>

HandleFocus ==
    /\ ~outcome.focused
    /\ Rendered(invoked.stateCode,
                [outcome EXCEPT !.focused = TRUE, !.isEditing = TRUE])

HandleChange ==
    /\ outcome.focused
    /\ \E value \in TypedStrings \ {outcome.inputValue} :
          Rendered(invoked.stateCode,
                   [outcome EXCEPT !.inputValue = value,
                                   !.isValid = (value = <<>> \/ isValidStateCode(value))])

\* handleBlur with the values of the render
BlurredFrom(state) ==
    IF ~outcome.isValid \/ outcome.inputValue = <<>>
    THEN [state EXCEPT !.isEditing = FALSE, !.inputValue = invoked.stateCode,
                       !.isValid = TRUE]
    ELSE [state EXCEPT !.isEditing = FALSE]

HandleBlur ==
    /\ outcome.focused
    /\ Rendered(invoked.stateCode, BlurredFrom([outcome EXCEPT !.focused = FALSE]))

\* isValid && inputValue !== stateCode
Applies == outcome.isValid /\ outcome.inputValue # invoked.stateCode

\* onApplyCode(inputValue); setIsEditing(false).  The parent shows the code
\* it showed or another one.
ApplyInput ==
    \E code \in ShownCodes :
        Rendered(code,
                 [outcome EXCEPT
                    !.applied = [called |-> TRUE, code |-> outcome.inputValue,
                                 current |-> invoked.stateCode],
                    !.isEditing = FALSE])

\* handleKeyDown for Enter
HandleEnter ==
    /\ outcome.focused
    /\ Applies
    /\ ApplyInput

\* handleKeyDown for Escape; blur() runs handleBlur
HandleEscape ==
    /\ outcome.focused
    /\ Rendered(invoked.stateCode,
                BlurredFrom([outcome EXCEPT !.inputValue = invoked.stateCode,
                                            !.isValid = TRUE,
                                            !.isEditing = FALSE,
                                            !.focused = FALSE]))

\* const hasChanges = isEditing && inputValue !== stateCode && isValid
hasChanges ==
    outcome.isEditing /\ outcome.inputValue # invoked.stateCode /\ outcome.isValid

\* a click on Apply, rendered while hasChanges
HandleApply ==
    /\ hasChanges
    /\ Applies
    /\ ApplyInput

\* the parent renders with another state code
StateCodeUpdate ==
    \E code \in ShownCodes \ {invoked.stateCode} : Rendered(code, outcome)

NextInput ==
    \/ HandleFocus
    \/ HandleChange
    \/ HandleBlur
    \/ HandleEnter
    \/ HandleEscape
    \/ HandleApply
    \/ StateCodeUpdate

SpecInput == InitInput /\ [][NextInput]_vars

\* The ends of a drag: a cell of the grid or a position of the bucket up to
\* last.  An image of the bucket is dragged; the drop is on an image of the
\* bucket or on the bucket itself (index bucket.length).
DragLocations(state, last) ==
    { GridLocation(r, c) : r \in 0..(state.rows - 1), c \in 0..(state.cols - 1) }
    \cup { BucketLocation(i) : i \in 0..last }

\* state codes a user can paste: the code shown, a code for another image
\* set carrying a swap and a colour override, a code whose swap names a row
\* outside the grid, and a string that is no code
PastedCodes ==
    { stateCode,
      encodeStateCode(<<>>, 7, [k \in 1..Len(app.images) |-> k = 1],
                      << SwapRecord(GridLocation(0, 0), GridLocation(0, 1)) >>,
                      << ColorOverrideEntry(0, 1, RGBColor(4, 5, 6)) >>),
      encodeStateCode(FilenamesOf(app.images), 7, [k \in 1..Len(app.images) |-> TRUE],
                      << SwapRecord(GridLocation(5, 0), BucketLocation(0)) >>, <<>>),
      <<"b", "a", "d">> }

InitApp ==
    /\ ArrangeIdle
    /\ SwapIdle
    /\ CodecIdle
    /\ CallIdle
    /\ \E n \in 1..MaxAppImages,
          size \in {[rows |-> 1, cols |-> 2], [rows |-> 2, cols |-> 2]},
          pct \in {0, 100} :
          app = AppState(SubSeq(HueImages, 1, n), size,
                         [sortAxis |-> "hue", entropyFactor |-> pct,
                          neighborRadius |-> 0, squareSmoothing |-> FALSE, seed |-> 42],
                         NoState, <<>>, <<>>, <<>>, FALSE)
    /\ effectPending = TRUE

\* the effect with the dependencies [images, gridSize, params]
RegenerateEffect ==
    /\ effectPending
    /\ effectPending' = FALSE
    /\ IF Len(app.images) > 0
       THEN \E newArrangement \in
                { arrangeImages(app.images, app.gridSize.rows, app.gridSize.cols,
                                app.params,
                                Mask(FirstCellsMask(app.images, app.gridSize))) } :
               app' = [app EXCEPT
                         !.inclusionMask = FirstCellsMask(app.images, app.gridSize),
                         !.swaps = <<>>,
                         !.arrangement = IF newArrangement.threw THEN @
                                         ELSE newArrangement.value]
       ELSE UNCHANGED app
    /\ UNCHANGED <<arrangeVars, swapVars, codecVars, callVars>>

\* The handlers leave in invoked the call the App handled last.
HandleRegenerate ==
    /\ ~effectPending
    /\ Len(app.images) > 0
    /\ \E newSeed \in {7, 9999} :       \* Math.floor(Math.random() * 10000)
       \E newArrangement \in
          { arrangeImages(app.images, app.gridSize.rows, app.gridSize.cols,
                          [app.params EXCEPT !.seed = newSeed],
                          Mask(FirstCellsMask(app.images, app.gridSize))) } :
          app' = [app EXCEPT
                    !.params = [app.params EXCEPT !.seed = newSeed],
                    !.inclusionMask = FirstCellsMask(app.images, app.gridSize),
                    !.swaps = <<>>,
                    !.hashMismatchWarning = FALSE,
                    !.arrangement = IF newArrangement.threw THEN @
                                    ELSE newArrangement.value]
    /\ effectPending' = TRUE
    /\ invoked' = [op |-> "handleRegenerate"]
    /\ UNCHANGED <<arrangeVars, swapVars, codecVars, outcome>>

\* handleSwap(from, to) for a drop; a call of applySwap that throws leaves
\* the state as it was
HandleSwap ==
    /\ ~effectPending
    /\ app.arrangement # NoState
    /\ Len(app.swaps) < MaxAppSwaps
    /\ \E from \in DragLocations(app.arrangement, Len(app.arrangement.bucket) - 1),
          to \in DragLocations(app.arrangement, Len(app.arrangement.bucket)) :
          /\ from # to
          /\ \E newArrangement \in { applySwapOf(app.arrangement, from, to) } :
                /\ ~newArrangement.threw
                /\ app' = [app EXCEPT
                             !.arrangement = newArrangement.value,
                             !.swaps = Append(@, SwapRecord(from, to)),
                             !.inclusionMask =
                                 SwapMask(@, app.images, newArrangement.value)]
    /\ invoked' = [op |-> "handleSwap"]
    /\ UNCHANGED <<arrangeVars, swapVars, codecVars, outcome, effectPending>>

\* handleApplyCode from setHashMismatchWarning on; when applySwap throws, the
\* setters called before it have taken effect
ApplyDecoded(data, newArrangement) ==
    /\ app' = IF newArrangement.threw
              THEN [app EXCEPT
                      !.hashMismatchWarning = data.hashMismatch,
                      !.params = [app.params EXCEPT !.seed = data.seed],
                      !.inclusionMask = data.inclusionMask]
              ELSE [app EXCEPT
                      !.hashMismatchWarning = data.hashMismatch,
                      !.params = [app.params EXCEPT !.seed = data.seed],
                      !.inclusionMask = data.inclusionMask,
                      !.arrangement = newArrangement.value,
                      !.swaps = data.swaps,
                      !.colorOverrides =
                          DecodedOverrides(<<>>, data.colorOverrides, app.images)]
    /\ effectPending' = TRUE

HandleApplyCode ==
    /\ ~effectPending
    /\ \E pasted \in PastedCodes :
       \E data \in { decodeStateCode(pasted, FilenamesOf(app.images)) } :
          /\ ~data.null
          /\ \E newArrangement \in
                { DecodedArrangement(app.images, app.gridSize,
                                     [app.params EXCEPT !.seed = data.seed], data) } :
                /\ ApplyDecoded(data, newArrangement)
                /\ invoked' = [op |-> "handleApplyCode", code |-> pasted]
    /\ UNCHANGED <<arrangeVars, swapVars, codecVars, outcome>>

Next == RegenerateEffect \/ HandleRegenerate \/ HandleSwap \/ HandleApplyCode

Spec == InitApp /\ [][Next]_vars

(***************************************************************************)
(* Properties of arrangeImages.                                            *)
(***************************************************************************)
\* the cells of a grid read row by row, top to bottom, left to right
RowMajor(grid, rows, cols) ==
    [k \in 1..(rows * cols) |-> grid[((k - 1) \div cols) + 1][((k - 1) % cols) + 1]]

\* the number of slots (grid cells and bucket positions) that hold image i
SlotCount(state, i) ==
    Cardinality({ k \in 1..(state.rows * state.cols) :
                    RowMajor(state.grid, state.rows, state.cols)[k] = i })
    + Cardinality({ k \in 1..Len(state.bucket) : state.bucket[k] = i })

\* the component of the primary colour on the sort axis
PrimaryComponent(image, axis) ==
    IF axis = "lightness" THEN image.colors[1].l
    ELSE IF axis = "chroma" THEN image.colors[1].c
    ELSE image.colors[1].h

\* image j comes before image i in stable ascending order
ComesBefore(images, axis, j, i) ==
    \/ PrimaryComponent(images[j], axis) < PrimaryComponent(images[i], axis)
    \/ /\ PrimaryComponent(images[j], axis) = PrimaryComponent(images[i], axis)
       /\ j < i

\* the images of the set S in stable ascending order of the component
StableAscending(images, axis, S) ==
    [k \in 1..Cardinality(S) |->
        CHOOSE i \in S :
            Cardinality({ j \in S : ComesBefore(images, axis, j, i) }) = k - 1]

\* the images a call sends towards the grid, as a set
GridBound(in) ==
    IF in.mask.given
    THEN { i \in 1..Len(in.images) : in.mask.bits[i] }
    ELSE LET all == StableAscending(in.images, in.params.sortAxis, 1..Len(in.images))
         IN  { all[k] : k \in 1..Min(in.rows * in.cols, Len(all)) }

\* cell k, row-major, holds element k of seq, and nothing beyond its end
FilledWith(state, seq) ==
    \A k \in 1..(state.rows * state.cols) :
        RowMajor(state.grid, state.rows, state.cols)[k] = ArrGet(seq, k - 1)

\* C2: in the state arrangeImages returns, every input image occupies exactly
\* one slot, a grid cell or a bucket position, for every grid size and mask
C2_EveryImageInOneSlot ==
    \A k \in 1..Len(results) :
        ~results[k].threw =>
            \A i \in 1..Len(input.images) : SlotCount(results[k].value, i) = 1

C7_PlainSortAndFill ==
    \A k \in 1..Len(results) :
        (/\ ~input.mask.given
         /\ input.params.entropyFactor = 0
         /\ input.params.neighborRadius = 0) =>
            LET all == StableAscending(input.images, input.params.sortAxis,
                                       1..Len(input.images))
            IN  /\ ~results[k].threw
                /\ FilledWith(results[k].value, all)
                /\ results[k].value.bucket
                     = SubSeq(all, input.rows * input.cols + 1, Len(all))
                /\ (/\ input.images = SubSeq(HueImages, 1, 4)
                    /\ input.rows = 2 /\ input.cols = 2
                    /\ input.params.sortAxis = "hue") =>
                       /\ results[k].value.grid = <<<<1, 3>>, <<2, 4>>>>
                       /\ results[k].value.bucket = <<>>

\* the call of the example: hues 10, 200, 90, 300 on a 2 x 2 grid
C7_Witness ==
    /\ Len(results) >= 1
    /\ ~input.mask.given
    /\ input.params.entropyFactor = 0 /\ input.params.neighborRadius = 0
    /\ input.images = SubSeq(HueImages, 1, 4)
    /\ input.rows = 2 /\ input.cols = 2
    /\ input.params.sortAxis = "hue"
    /\ results[1].value.grid = <<<<1, 3>>, <<2, 4>>>>

\* the images in the cells of a grid
ImagesInGrid(state) ==
    { RowMajor(state.grid, state.rows, state.cols)[k] :
        k \in 1..(state.rows * state.cols) } \ {Null}

\* C8: with an inclusion mask aligned to the image list, exactly the images
\* whose mask entry, at the image's index in the input list, is true go to
\* the grid-bound sequence and exactly the others to the bucket, both in the
\* relative order of the score-sorted sequence
C8_MaskPartition ==
    (input.mask.given /\ Len(input.mask.bits) = Len(input.images)) =>
        LET included == { i \in 1..Len(input.images) : input.mask.bits[i] }
            excluded == (1..Len(input.images)) \ included
            part     == Partition(input.images, input.rows, input.cols,
                                  input.params, input.mask)
        IN  /\ part.gridImages
                 = StableAscending(input.images, input.params.sortAxis, included)
            /\ part.bucketImages
                 = StableAscending(input.images, input.params.sortAxis, excluded)
            /\ \A k \in 1..Len(results) :
                  /\ ~results[k].threw
                  /\ results[k].value.bucket = part.bucketImages
                  /\ ImagesInGrid(results[k].value) \subseteq included

\* a call with a mask that keeps two images and excludes two, where the image
\* first in the input list is not first in sorted order
C8_Witness ==
    /\ Len(results) >= 1
    /\ input.mask.given /\ Len(input.mask.bits) = Len(input.images)
    /\ Cardinality({ i \in 1..Len(input.images) : input.mask.bits[i] }) >= 2
    /\ Len(results[1].value.bucket) >= 2
    /\ results[1].value.bucket[1] > results[1].value.bucket[2]
    /\ StableAscending(input.images, input.params.sortAxis,
                       1..Len(input.images))[1] # 1

(***************************************************************************)
(* Properties of applySwap and swapInGrid.                                 *)
(***************************************************************************)
\* how many slots of a state's value, grid and bucket together, hold image i
ImageCount(value, i) ==
    Cardinality({ p \in (1..Len(value.grid)) \X (1..(value.cols + 1)) :
                    ArrGet(value.grid[p[1]], p[2] - 1) = i })
    + Cardinality({ k \in 1..Len(value.bucket) : value.bucket[k] = i })

\* the addresses of a state's row arrays
RowArrays(h, state) == { h[state.grid][r] : r \in 1..Len(h[state.grid]) }

\* the state passed to the latest call holds what it held when passed
PassedUnchanged == Deref(heap, before.state) = before.value

\* C1: applySwap returns a state that holds exactly the same multiset of
\* images across grid and bucket as the state passed in, for every pair of
\* locations: empty cells, and bucket indices at or beyond the length, too
C1_SwapKeepsImages ==
    (before.op = "applySwap" /\ ~returned.threw) =>
        \A i \in 1..MaxSwapImages :
            ImageCount(Deref(heap, returned.state), i) = ImageCount(before.value, i)

\* C9 as stated: after applySwap or swapInGrid the rows and the bucket of the
\* state passed in hold what they held before, and the returned state has
\* its own row arrays and its own bucket array
C9_OwnRowsAndBucket ==
    before.op # "none" =>
        /\ PassedUnchanged
        /\ ~returned.threw =>
              /\ RowArrays(heap, returned.state) \cap RowArrays(heap, before.state) = {}
              /\ returned.state.grid # before.state.grid
              /\ returned.state.bucket # before.state.bucket

\* C9, amended: after applySwap or swapInGrid the rows and the bucket of the
\* state passed in hold what they held before; the returned state has its
\* own row arrays; the state applySwap returns has its own bucket array, the
\* state swapInGrid returns shares the bucket array of the state passed in
C9_CopyOnWrite ==
    before.op # "none" =>
        /\ PassedUnchanged
        /\ ~returned.threw =>
              /\ RowArrays(heap, returned.state) \cap RowArrays(heap, before.state) = {}
              /\ returned.state.grid # before.state.grid
              /\ before.op = "applySwap" =>
                     returned.state.bucket # before.state.bucket
              /\ before.op = "swapInGrid" =>
                     returned.state.bucket = before.state.bucket

\* a call of applySwap that moved an image between the grid and the bucket
C9_Witness ==
    /\ before.op = "applySwap"
    /\ ~returned.threw
    /\ before.from.type = "grid" /\ before.to.type = "bucket"
    /\ Deref(heap, returned.state).grid # before.value.grid
    /\ Deref(heap, returned.state).bucket # before.value.bucket

\* C10: applySwap never fails: for every state and every pair of locations,
\* rows and columns outside the grid and bucket indices outside the bucket
\* included, it returns a state
C10_SwapNeverFails ==
    before.op = "applySwap" => ~returned.threw

\* the images in the bucket slots that neither from nor to names, in order
OtherEntries(bucket, from, to) ==
    LET slots == { k \in 1..Len(bucket) :
                     /\ bucket[k] # Null
                     /\ ~(from.type = "bucket" /\ from.index = k - 1)
                     /\ ~(to.type = "bucket" /\ to.index = k - 1) }
    IN  [j \in 1..Cardinality(slots) |->
            bucket[CHOOSE k \in slots : Cardinality({ m \in slots : m < k }) = j - 1]]

\* s can be had from t by leaving entries out
RECURSIVE IsSubsequence(_, _)
IsSubsequence(s, t) ==
    IF s = <<>> THEN TRUE
    ELSE IF t = <<>> THEN FALSE
    ELSE IF Head(s) = Head(t) THEN IsSubsequence(Tail(s), Tail(t))
    ELSE IsSubsequence(s, Tail(t))

\* applySwap moved the image of bucket slot i into an empty cell: slot i is
\* gone, the later entries are one slot down, the cell holds the image
BucketSlotRemoved(old, new, i, cell) ==
    /\ Len(new.bucket) = Len(old.bucket) - 1
    /\ \A k \in 1..Len(new.bucket) :
          new.bucket[k] = IF k <= i THEN old.bucket[k] ELSE old.bucket[k + 1]
    /\ ArrGet(new.grid[cell.row + 1], cell.col) = old.bucket[i + 1]

\* applySwap moved the image of a cell to the end of the bucket
AppendedToBucket(old, new, cell) ==
    /\ new.bucket = Append(old.bucket, ArrGet(old.grid[cell.row + 1], cell.col))
    /\ ArrGet(new.grid[cell.row + 1], cell.col) = Null

\* C11: applySwap from an occupied bucket index i to an empty grid cell
\* removes slot i (the bucket shrinks by one, later entries shift down by
\* one) and puts the image in the cell; applySwap from an occupied grid cell
\* to a bucket index at or beyond the bucket's length appends the image at
\* the end of the bucket and empties the cell; in every applySwap the bucket
\* entries that neither from nor to names are still in the bucket returned,
\* in the order they had
C11_BucketMoves ==
    (before.op = "applySwap" /\ ~returned.threw) =>
        LET old == before.value
            new == Deref(heap, returned.state)
            from == before.from
            to == before.to
            image(loc) == IF loc.type = "bucket" THEN ArrGet(old.bucket, loc.index)
                          ELSE IF loc.row < Len(old.grid)
                               THEN ArrGet(old.grid[loc.row + 1], loc.col) ELSE Null
        IN  /\ (from.type = "bucket" /\ to.type = "grid"
                 /\ image(from) # Null /\ image(to) = Null)
                    => BucketSlotRemoved(old, new, from.index, to)
            /\ (from.type = "grid" /\ to.type = "bucket"
                 /\ image(from) # Null /\ to.index >= Len(old.bucket))
                    => AppendedToBucket(old, new, from)
            /\ IsSubsequence(OtherEntries(old.bucket, from, to), new.bucket)

\* the same for a bucket passed in without empty slots
C11_BucketMovesDense ==
    (\A k \in 1..Len(before.value.bucket) : before.value.bucket[k] # Null)
        => C11_BucketMoves

(***************************************************************************)
(* Properties of the state codec.                                          *)
(***************************************************************************)
\* C3: decodeStateCode(encodeStateCode(f, seed, mask, swaps, overrides), f) is
\* not null and holds the same seed, the same mask, the same swaps in the
\* same order, the same overrides in the same order, and hashMismatch false.
C3_RoundTrip ==
    decoded.returned =>
        decoded.data = StateCodeData(encoding.seed, encoding.inclusionMask,
                                     encoding.swaps, encoding.colorOverrides, FALSE)

\* a code with a partial mask, two swaps at the caps and an override at the
\* caps was decoded
C3_Witness ==
    /\ decoded.returned
    /\ \E k \in 1..Len(encoding.inclusionMask) : ~encoding.inclusionMask[k]
    /\ Len(encoding.swaps) = 2
    /\ encoding.swaps[1].from = GridLocation(127, 255)
    /\ encoding.swaps[2].to = BucketLocation(32767)
    /\ Len(encoding.colorOverrides) = 1
    /\ encoding.colorOverrides[1].imageIndex = 65535

(***************************************************************************)
(* Properties of decodeStateCode and isValidStateCode on any string.       *)
(***************************************************************************)
\* the fields of the string passed to the call
Fields == Split(invoked.code, ":")

\* C12: decodeStateCode returns null for every code that does not have
\* exactly 5 colon-separated fields, for every code whose seed field has a
\* character outside 0-9a-z, and for every code whose seed value lies
\* outside [0, 36^4 - 1]
C12_RejectsBadFieldsAndSeeds ==
    (invoked.op = "decodeStateCode" /\ outcome.returned) =>
        /\ Len(Fields) # 5 => outcome.value.null
        /\ (\E k \in 1..Len(Fields[1]) :
                \A d \in 1..36 : Base36Digits[d] # Fields[1][k])
              => outcome.value.null
        /\ (Len(Fields) = 5 /\ ~stringToSeed(Fields[1]).nan
             /\ (stringToSeed(Fields[1]).value < 0
                 \/ stringToSeed(Fields[1]).value > MAX_SEED))
              => outcome.value.null

\* the first and the third part of C12 alone
C12_RejectsFieldCountAndRange ==
    (invoked.op = "decodeStateCode" /\ outcome.returned) =>
        /\ Len(Fields) # 5 => outcome.value.null
        /\ (Len(Fields) = 5 /\ ~stringToSeed(Fields[1]).nan
             /\ (stringToSeed(Fields[1]).value < 0
                 \/ stringToSeed(Fields[1]).value > MAX_SEED))
              => outcome.value.null

\* a field that is no base64: a character outside A-Z a-z 0-9 + / - _ =, or
\* one character more than a multiple of four
NotBase64(field) ==
    \/ Len(field) % 4 = 1
    \/ \E k \in 1..Len(field) :
          /\ \A j \in 1..64 : Base64Chars[j] # field[k]
          /\ field[k] \notin {"-", "_", "="}

\* the first field is a seed that decodeStateCode accepts
SeedAccepted ==
    /\ Len(Fields) = 5
    /\ ~stringToSeed(Fields[1]).nan
    /\ stringToSeed(Fields[1]).value >= 0
    /\ stringToSeed(Fields[1]).value <= MAX_SEED

\* C13: decodeStateCode and isValidStateCode return for every string (an
\* object or null, true or false); for a code with 5 fields and a valid seed
\* decodeStateCode returns non-null whatever the other fields hold; a swaps
\* or overrides field that is no base64 gives an empty swap list or an empty
\* override list
C13_NeverAHardFailure ==
    outcome.returned =>
        /\ invoked.op = "isValidStateCode" => outcome.value \in BOOLEAN
        /\ invoked.op = "decodeStateCode" =>
              /\ outcome.value.null \in BOOLEAN
              /\ SeedAccepted =>
                    /\ ~outcome.value.null
                    /\ NotBase64(Fields[3]) => outcome.value.swaps = <<>>
                    /\ NotBase64(Fields[4]) => outcome.value.colorOverrides = <<>>

\* a code with a valid seed whose swaps field has characters outside the
\* alphabet and whose overrides field is one character long was decoded
C13_Witness ==
    /\ invoked.op = "decodeStateCode"
    /\ outcome.returned
    /\ SeedAccepted
    /\ Fields[3] = <<"!", "!">>
    /\ Fields[4] = <<"A">>
    /\ ~outcome.value.null

\* C14: a hash mismatch never rejects a code: decodeStateCode returns
\* hashMismatch = true exactly when the fifth field differs from
\* hashImageSet(filenames), and whether it returns null, and the seed, the
\* swaps and the overrides it returns, are those it returns for the same
\* code with hashImageSet(filenames) as fifth field
C14_MismatchIsAFlag ==
    (invoked.op = "decodeStateCode" /\ outcome.returned /\ Len(Fields) = 5) =>
        LET own == hashImageSet(invoked.filenames)
            matching == decodeStateCode(Join(<<Fields[1], Fields[2], Fields[3],
                                               Fields[4], own>>, ":"),
                                        invoked.filenames)
        IN  /\ outcome.value.null = matching.null
            /\ ~outcome.value.null =>
                  /\ outcome.value.hashMismatch = (Fields[5] # own)
                  /\ ~matching.hashMismatch
                  /\ outcome.value.seed = matching.seed
                  /\ outcome.value.swaps = matching.swaps
                  /\ outcome.value.colorOverrides = matching.colorOverrides

\* a code with the hash of another image set, one swap and one override was
\* decoded
C14_Witness ==
    /\ invoked.op = "decodeStateCode"
    /\ outcome.returned
    /\ Len(Fields) = 5
    /\ Fields[5] = <<"a", "b", "c", "1", "2", "3">>
    /\ ~outcome.value.null
    /\ outcome.value.hashMismatch
    /\ Len(outcome.value.swaps) = 1
    /\ Len(outcome.value.colorOverrides) = 1

C16_SameFilenameInAnyOrder ==
    (invoked.op = "decodeReordered" /\ outcome.returned) =>
        /\ ~outcome.value.null
        /\ ~outcome.value.hashMismatch
        /\ \A i, j \in 1..Len(invoked.filenames) :
              invoked.reordered[i] = invoked.filenames[j] =>
                  outcome.value.inclusionMask[i] = invoked.inclusionMask[j]
        /\ Len(outcome.value.colorOverrides) = Len(invoked.colorOverrides)
        /\ \A k \in 1..Len(invoked.colorOverrides) :
              invoked.reordered[outcome.value.colorOverrides[k].imageIndex + 1]
                  = invoked.filenames[invoked.colorOverrides[k].imageIndex + 1]

\* what holds in its place: the mask and the overrides come back by position
C16_SamePosition ==
    (invoked.op = "decodeReordered" /\ outcome.returned) =>
        /\ ~outcome.value.null
        /\ ~outcome.value.hashMismatch
        /\ outcome.value.inclusionMask = invoked.inclusionMask
        /\ outcome.value.colorOverrides = invoked.colorOverrides

\* the type byte and the 15-bit value of a location
LocationType(loc) == IF loc.type = "grid" THEN 1 ELSE 0
LocationValue(loc) == IF loc.type = "grid" THEN loc.row * 256 + loc.col ELSE loc.index

\* C17: for swaps with rows <= 127, columns <= 255 and bucket indices
\* <= 32767, decodeSwaps(encodeSwaps(swaps)) equals swaps, and encodeSwaps
\* emits 6 bytes per record: [typeFrom, valFromHi, valFromLo, typeTo,
\* valToHi, valToLo]
C17_SwapsRoundTrip ==
    (invoked.op = "encodeSwaps" /\ outcome.returned) =>
        /\ outcome.value.swaps = invoked.swaps
        /\ Len(outcome.value.bytes) = 6 * Len(invoked.swaps)
        /\ \A k \in 1..Len(invoked.swaps) :
              SubSeq(outcome.value.bytes, 6 * k - 5, 6 * k)
                = << LocationType(invoked.swaps[k].from),
                     LocationValue(invoked.swaps[k].from) \div 256,
                     LocationValue(invoked.swaps[k].from) % 256,
                     LocationType(invoked.swaps[k].to),
                     LocationValue(invoked.swaps[k].to) \div 256,
                     LocationValue(invoked.swaps[k].to) % 256 >>

\* two swaps went through, the first from the last cell encodeLocation
\* keeps, the second to the last bucket index
C17_Witness ==
    /\ invoked.op = "encodeSwaps"
    /\ outcome.returned
    /\ Len(invoked.swaps) = 2
    /\ invoked.swaps[1].from = GridLocation(127, 255)
    /\ invoked.swaps[2].to = BucketLocation(32767)
    /\ Len(outcome.value.swaps) = 2

\* C18: for every boolean list b, unpackBits(packBits(b), |b|) equals b;
\* packBits stores element i in bit 7 - (i mod 8) of byte floor(i / 8) and
\* emits ceil(|b| / 8) bytes
C18_BitsRoundTrip ==
    (invoked.op = "packBits" /\ outcome.returned) =>
        /\ outcome.value.bits = invoked.bits
        /\ Len(outcome.value.bytes) * 8 >= Len(invoked.bits)
        /\ Len(outcome.value.bytes) * 8 < Len(invoked.bits) + 8
        /\ \A j \in 1..Len(outcome.value.bytes), bit \in 0..7 :
              ((outcome.value.bytes[j] \div (2 ^ bit)) % 2 = 1)
                = (/\ 8 * (j - 1) + (7 - bit) < Len(invoked.bits)
                   /\ invoked.bits[8 * (j - 1) + (7 - bit) + 1])

\* a list of 9 elements went through, its first and its last element true
C18_Witness ==
    /\ invoked.op = "packBits"
    /\ outcome.returned
    /\ Len(invoked.bits) = 9
    /\ invoked.bits[1] /\ ~invoked.bits[2] /\ invoked.bits[9]
    /\ Len(outcome.value.bytes) = 2

(***************************************************************************)
(* Properties of colour extraction.                                        *)
(***************************************************************************)
\* the cached colours with pixelCount >= smartThreshold * totalPixels
Qualifying == { k \in 1..Len(invoked.allColors) :
                  invoked.allColors[k].pixelCount * 100
                      >= invoked.settings.smartThreshold * invoked.totalPixels }

C20_KeptPixels ==
    (invoked.op = "extractPixelData" /\ outcome.returned) =>
        LET data == invoked.data
            dropped(px) ==
                \/ px[4] < 128
                \/ \A ch \in 1..3 : px[ch] > 240
                \/ \A ch \in 1..3 : px[ch] < 15
                \/ /\ \A ch1, ch2 \in 1..3 : px[ch1] - px[ch2] < 20
                   /\ px[1] + px[2] + px[3] > 3 * 180
            kept == { k \in 1..Len(data) : ~dropped(data[k]) }
            pixels == outcome.value.pixels
        IN  /\ Len(pixels) = Cardinality(kept)
            /\ \A j \in 1..Len(pixels) :
                  \E k \in kept :
                      /\ Cardinality({ m \in kept : m < k }) = j - 1
                      /\ pixels[j].color = RGBColor(data[k][1], data[k][2], data[k][3])
                      /\ pixels[j].x = (k - 1) % invoked.width
                      /\ pixels[j].y = (k - 1) \div invoked.width

\* an image of two rows went through: its first pixel dropped for its
\* alpha, its last pixel kept at x = 0, y = 1 or beyond
C20_Witness ==
    /\ invoked.op = "extractPixelData"
    /\ outcome.returned
    /\ invoked.width = 1
    /\ Len(invoked.data) >= 2
    /\ invoked.data[1] = <<100, 50, 20, 127>>
    /\ invoked.data[2] = <<200, 190, 180, 255>>
    /\ Len(outcome.value.pixels) >= 1
    /\ outcome.value.pixels[1].y = 1

\* the mean position of the samples of the call less the middle of the
\* image, and a quarter of the smaller side, all times 4 * pixels.length
MeanDx == 4 * SumOf(invoked.pixels, "x") - 2 * Len(invoked.pixels) * invoked.width
MeanDy == 4 * SumOf(invoked.pixels, "y") - 2 * Len(invoked.pixels) * invoked.height
QuarterSide == Len(invoked.pixels) * Min(invoked.width, invoked.height)
PositionReturned ==
    invoked.op = "computeColorPosition" /\ outcome.returned /\ Len(invoked.pixels) > 0

\* C21 as stated: a cluster is "center" when |dx| and |dy| of its mean sample
\* position from the middle of the image are both within 25% of
\* min(width, height); otherwise it is tagged with the axis of larger
\* magnitude (left/right by the sign of dx, top/bottom by the sign of dy),
\* and when |dx| = |dy| the tie goes to the horizontal axis
C21_TieGoesHorizontal ==
    PositionReturned =>
        IF Abs(MeanDx) < QuarterSide /\ Abs(MeanDy) < QuarterSide
        THEN outcome.value = "center"
        ELSE IF Abs(MeanDx) >= Abs(MeanDy)
        THEN outcome.value \in {"left", "right"}
             /\ (MeanDx > 0 => outcome.value = "right")
             /\ (MeanDx < 0 => outcome.value = "left")
        ELSE outcome.value \in {"top", "bottom"}
             /\ (MeanDy > 0 => outcome.value = "bottom")
             /\ (MeanDy < 0 => outcome.value = "top")

\* C21, amended: a cluster is "center" when |dx| and |dy| are both less than
\* 25% of min(width, height); otherwise it is "right" or "left" by the sign of
\* dx when |dx| > |dy|, and "bottom" or "top" by the sign of dy when
\* |dx| <= |dy|: a tie goes to the vertical axis
C21_TieGoesVertical ==
    PositionReturned =>
        IF Abs(MeanDx) < QuarterSide /\ Abs(MeanDy) < QuarterSide
        THEN outcome.value = "center"
        ELSE IF Abs(MeanDx) > Abs(MeanDy)
        THEN outcome.value = (IF MeanDx > 0 THEN "right" ELSE "left")
        ELSE outcome.value = (IF MeanDy > 0 THEN "bottom" ELSE "top")

\* the one sample of the cluster is the top left pixel of an image 4 by 4:
\* dx = dy = -2, beyond the threshold 1
C21_Witness ==
    /\ PositionReturned
    /\ invoked.width = 4 /\ invoked.height = 4
    /\ Len(invoked.pixels) = 1
    /\ invoked.pixels[1].x = 0 /\ invoked.pixels[1].y = 0
    /\ outcome.value = "top"

\* the pixelCounts of a list never go up
NonIncreasing(colors) ==
    \A i \in 1..(Len(colors) - 1) : colors[i].pixelCount >= colors[i + 1].pixelCount

ColorsReturned == invoked.op = "extractColors" /\ outcome.returned
Clusters == outcome.value.clustering.clusters
Passes == outcome.value.clustering.passes

\* C22: every colour list the extractor hands out is ordered by
\* non-increasing pixelCount: allColors of extractColors for any samples, and
\* the list deriveActiveColors makes of it in smart and in fixed mode, gray
\* padding included
C22_OrderedByPixelCount ==
    ColorsReturned =>
        /\ NonIncreasing(outcome.value.colors.allColors)
        /\ \A settings \in SettingsChoices :
              NonIncreasing(deriveActiveColors(outcome.value.colors.allColors,
                                               outcome.value.colors.totalPixels, settings))

\* the clustering left its first cluster smaller than a later one, and two
\* of the ranked colours have a quarter of the samples
C22_Witness ==
    /\ ColorsReturned
    /\ Len(Clusters) >= 2
    /\ \E i \in 2..Len(Clusters) : Len(Clusters[1].pixels) < Len(Clusters[i].pixels)
    /\ Len(deriveActiveColors(outcome.value.colors.allColors,
                              outcome.value.colors.totalPixels,
                              [numColors |-> 3, smartDetection |-> TRUE,
                               smartThreshold |-> 25])) = 2

\* the places of a sample in the clusters returned
PlacesOf(pixel) ==
    { place \in (1..Len(Clusters)) \X (1..Len(invoked.pixels)) :
        /\ place[2] <= Len(Clusters[place[1]].pixels)
        /\ Clusters[place[1]].pixels[place[2]] = pixel }

\* C26: kMeansClustering partitions its samples: n < 5 samples give n
\* singleton clusters, one per sample; n >= 5 samples give exactly 5
\* clusters after exactly 20 assignment passes; every sample is in exactly
\* one cluster returned, so the pixelCounts sum to totalPixels; a cluster a
\* pass leaves empty keeps the centroid it had before that pass
C26_ClustersPartition ==
    ColorsReturned =>
        /\ Len(invoked.pixels) < 5 =>
              /\ Len(Clusters) = Len(invoked.pixels)
              /\ \A i \in 1..Len(invoked.pixels) :
                    /\ Clusters[i].pixels = <<invoked.pixels[i]>>
                    /\ Clusters[i].centroid = invoked.pixels[i].color
        /\ Len(invoked.pixels) >= 5 =>
              /\ Len(Clusters) = 5
              /\ Len(Passes) = 20
              /\ \A t \in 1..Len(Passes) : \A i \in 1..5 :
                    Passes[t].clusters[i] = <<>> =>
                        Passes[t].centroids[i] = Passes[t].before[i]
        /\ \A i \in 1..Len(invoked.pixels) :
              Cardinality(PlacesOf(invoked.pixels[i])) = 1
        /\ SumCounts(outcome.value.colors.allColors) = outcome.value.colors.totalPixels
        /\ outcome.value.colors.totalPixels = Len(invoked.pixels)

\* five clusters came back after 20 passes: one of them empty since the
\* first pass, one with the mean of two greys as its centroid
C26_Witness ==
    /\ ColorsReturned
    /\ Len(invoked.pixels) >= 5
    /\ Len(Passes) = 20
    /\ \E i \in 1..Len(Clusters) :
          /\ Passes[1].clusters[i] = <<>>
          /\ Clusters[i].pixels = <<>>
    /\ \E i \in 1..Len(Clusters) :
          /\ Clusters[i].centroid.r \notin GreyLevels
          /\ Len(Clusters[i].pixels) >= 2

\* C23: colorDistanceOklch(c, c) = 0 for every colour c, colorDistanceOklch
\* is symmetric, and its hue term is the circular difference
\* min(|h1 - h2|, 360 - |h1 - h2|) for hues in [0, 360): with equal lightness
\* and chroma the distance is that difference, so that the hues 5 and 355 are
\* as far apart as two hues 10 apart
C23_CircularHueDistance ==
    (invoked.op = "colorDistanceOklch" /\ outcome.returned) =>
        LET h1 == invoked.c1.h
            h2 == invoked.c2.h
        IN  /\ invoked.c1 = invoked.c2 => outcome.value.distance = 0
            /\ outcome.value.distance = outcome.value.exchanged
            /\ (invoked.c1.l = invoked.c2.l /\ invoked.c1.c = invoked.c2.c) =>
                  /\ outcome.value.distance = Min(Abs(h1 - h2), 360 - Abs(h1 - h2))
                  /\ ({h1, h2} = {5, 355} => outcome.value.distance = 10)
                  /\ ({h1, h2} = {5, 15} => outcome.value.distance = 10)

\* the distance of the hues 5 and 355, lightness and chroma equal, is 10
C23_Witness ==
    /\ invoked.op = "colorDistanceOklch"
    /\ outcome.returned
    /\ invoked.c1 = [l |-> 50, c |-> 10, h |-> 5]
    /\ invoked.c2 = [l |-> 50, c |-> 10, h |-> 355]
    /\ outcome.value.distance = 10

(***************************************************************************)
(* Properties of the parts of the engine.                                  *)
(***************************************************************************)
Annealing == invoked.op = "optimizeLocalSmoothness" /\ outcome # NoOutcome
AnnealedGrid == IF outcome.returned THEN outcome.value.grid ELSE outcome.grid

\* the cells of a grid that hold an image, and how often an image is held
OccupiedCells(grid) ==
    { cell \in (1..Len(grid)) \X (1..Len(grid[1])) : grid[cell[1]][cell[2]] # Null }
TimesHeld(grid, image) ==
    Cardinality({ cell \in OccupiedCells(grid) : grid[cell[1]][cell[2]] = image })

\* the smoothing, at any iteration and at its end, has the cells occupied
\* that were, and every image as often as it was
SameOccupancy ==
    Annealing =>
        /\ OccupiedCells(AnnealedGrid) = OccupiedCells(invoked.grid)
        /\ \A image \in 1..MaxAnnealed :
              TimesHeld(AnnealedGrid, image) = TimesHeld(invoked.grid, image)

\* an iteration leaves the grid as it was or with the contents of two
\* occupied cells exchanged; it leaves them exchanged when it drew two
\* cells whose summed energy the exchange does not raise
IterationExchanges ==
    (Annealing /\ UnderWay /\ UnderWay') =>
        LET positions == OccupiedFrom(invoked.grid, 0)
            s1 == rngNext(outcome.rng)
            idx1 == FloorScaled(s1, Len(positions))
            idx2 == FloorScaled(rngNext(s1), Len(positions))
            p1 == positions[idx1 + 1]
            p2 == positions[idx2 + 1]
            swapped == SwapCells(outcome.grid, p1[1], p1[2], p2[1], p2[2])
            energy(grid, pos) == neighborEnergy(invoked.env, grid, pos[1], pos[2],
                                                invoked.radius, invoked.square)
            raised == LET new1 == energy(swapped, p1)
                          new2 == energy(swapped, p2)
                          cur1 == energy(outcome.grid, p1)
                          cur2 == energy(outcome.grid, p2)
                      IN  (new1.num * new2.den + new2.num * new1.den) * cur1.den * cur2.den
                            > (cur1.num * cur2.den + cur2.num * cur1.den) * new1.den * new2.den
        IN  /\ outcome'.grid \in
                  {outcome.grid} \cup
                  { SwapCells(outcome.grid, a[1] - 1, a[2] - 1, b[1] - 1, b[2] - 1) :
                      a \in OccupiedCells(outcome.grid), b \in OccupiedCells(outcome.grid) }
            /\ (idx1 # idx2 /\ ~raised) => outcome'.grid = swapped

\* C24: local smoothing only exchanges the contents of two occupied cells:
\* after optimizeLocalSmoothness, for any radius, neighbourhood shape and
\* seed, the occupied cells are those that were, every empty cell is still
\* empty and the grid holds the same multiset of images; an exchange that
\* does not increase the summed neighbour energy of the two cells is never
\* reverted
C24_SmoothingExchanges == []SameOccupancy /\ [][IterationExchanges]_vars

\* the smoothing returned after its 2000 iterations with a grid of three
\* images and three empty cells, two of the images exchanged
C24_Witness ==
    /\ invoked.op = "optimizeLocalSmoothness"
    /\ outcome.returned
    /\ outcome.value.iterations = 2000
    /\ Cardinality(OccupiedCells(invoked.grid)) = 3
    /\ outcome.value.grid # invoked.grid

Shuffling == invoked.op = "applyEntropy" /\ outcome # NoOutcome

\* applyEntropy returned after floor(N * entropy * 0.3) exchanges a
\* permutation of its input, and left the input as it was
ShuffledPermutation ==
    (Shuffling /\ outcome.returned) =>
        LET n == Len(invoked.sorted)
        IN  /\ outcome.value.exchanges = (n * invoked.pct * 3) \div 1000
            /\ Len(outcome.value.result) = n
            /\ \A k \in 1..n : outcome.value.result[k] # Null
            /\ \A image \in 1..n :
                  Cardinality({ k \in 1..n : outcome.value.result[k] = image }) = 1
            /\ invoked.pct > 0 => outcome.value.sorted = invoked.sorted

\* a pass exchanges the entries at an index and at that index plus an
\* offset within the window, clamped to the sequence
PassExchanges ==
    (Shuffling /\ UnderWay /\ UnderWay') =>
        LET n == Len(invoked.sorted)
            window == 5 + ((invoked.pct * 15) \div 100)
        IN  /\ outcome'.exchanges = outcome.exchanges + 1
            /\ outcome'.sorted = outcome.sorted
            /\ \E idx \in 0..(n - 1), offset \in (-window)..window :
                  LET swapIdx == Max(0, Min(n - 1, idx + offset))
                  IN  outcome'.result =
                          [k \in 1..n |->
                              IF k = idx + 1 THEN outcome.result[swapIdx + 1]
                              ELSE IF k = swapIdx + 1 THEN outcome.result[idx + 1]
                              ELSE outcome.result[k]]

C30_DrawsBelowOne ==
    /\ (invoked.op = "seededRandom" /\ UnderWay /\ outcome.calls >= 1) =>
          /\ outcome.rng >= 0
          /\ outcome.rng < 2147483647
          /\ \A n \in 1..MaxShuffled :
                FloorScaled(outcome.rng, n) \in 0..(n - 1)
    /\ (Shuffling /\ UnderWay) =>
          \A k \in 1..Len(outcome.result) : outcome.result[k] # Null
    /\ (Annealing /\ UnderWay) => ~outcome.threw

\* the generator seeded with 36^4 - 1 has been called 40 times
C30_Witness ==
    /\ invoked.op = "seededRandom"
    /\ invoked.seed = 1679615
    /\ UnderWay
    /\ outcome.calls = 40
    /\ outcome.rng > 0

\* C28: every code accepted by isValidStateCode is decodable: for every
\* string and every list of filenames, isValidStateCode(code) = true
\* implies that decodeStateCode(code, filenames) is not null, its seed is
\* in [0, 36^4 - 1] and its inclusion mask has one entry per filename
C28_ValidIsDecodable ==
    (invoked.op = "decodeStateCode" /\ outcome.returned
     /\ isValidStateCode(invoked.code)) =>
        /\ ~outcome.value.null
        /\ outcome.value.seed \in 0..MAX_SEED
        /\ Len(outcome.value.inclusionMask) = Len(invoked.filenames)

\* an accepted code whose mask field holds one byte, decoded for three
\* filenames, and one whose mask field is no base64, decoded for none
C28_Witness ==
    /\ invoked.op = "decodeStateCode"
    /\ outcome.returned
    /\ isValidStateCode(invoked.code)
    /\ \/ /\ Len(invoked.filenames) = 3
          /\ Len(Split(invoked.code, ":")[2]) = 2
          /\ outcome.value.inclusionMask = <<TRUE, FALSE, TRUE>>
       \/ /\ Len(invoked.filenames) = 0
          /\ Split(invoked.code, ":")[2] = <<"A">>

(***************************************************************************)
(* Properties of the App.                                                  *)
(***************************************************************************)
\* C4: after any sequence of swaps made through handleSwap on a generated
\* arrangement, replaying the state code the App shows as handleApplyCode
\* does (arrangeImages with the decoded seed and mask, then applySwap for each
\* decoded swap in order) yields the grid and the bucket of the arrangement
\* the code was produced from.
C4_RestoredFromCode ==
    (~effectPending /\ app.arrangement # NoState) =>
        \E data \in { decodeStateCode(stateCode, FilenamesOf(app.images)) } :
            /\ ~data.null
            /\ DecodedArrangement(app.images, app.gridSize,
                                  [app.params EXCEPT !.seed = data.seed], data)
                  = Ok(app.arrangement)

\* C27: after handleApplyCode(code) with a code that decodes, once every
\* pending effect has run, the swap log of the App is the decoded swaps, its
\* inclusion mask is the decoded mask and its arrangement is the base
\* arrangement for the decoded seed and mask with the decoded swaps applied
\* in order: the effect with the dependencies [images, gridSize, params]
\* does not put a fresh base arrangement, the default mask and an empty
\* swap log in their place
C27_AppliedCodeStays ==
    (invoked.op = "handleApplyCode" /\ ~effectPending) =>
        \E data \in { decodeStateCode(invoked.code, FilenamesOf(app.images)) } :
            /\ app.swaps = data.swaps
            /\ app.inclusionMask = data.inclusionMask
            /\ DecodedArrangement(app.images, app.gridSize,
                                  [app.params EXCEPT !.seed = data.seed], data)
                  = Ok(app.arrangement)

(***************************************************************************)
(* Properties of the StateCodeInput component.                             *)
(***************************************************************************)
\* C29: after any sequence of focus, change, blur, Enter, Escape,
\* Apply-click and external state-code update events, StateCodeInput calls
\* onApplyCode(s) only with a string s that differs from the current state
\* code and for which isValidStateCode(s) is true
C29_AppliesValidChangedCode ==
    (invoked.op = "StateCodeInput" /\ outcome.applied.called) =>
        /\ outcome.applied.code # outcome.applied.current
        /\ isValidStateCode(outcome.applied.code)

\* what the component does keep: the string differs from the current state
\* code, and it is empty or isValidStateCode accepts it
C29_AppliesChangedCodeOrNothing ==
    (invoked.op = "StateCodeInput" /\ outcome.applied.called) =>
        /\ outcome.applied.code # outcome.applied.current
        /\ outcome.applied.code = <<>> \/ isValidStateCode(outcome.applied.code)

=============================================================================
